---- MODULE Spec2Model ----
(***************************************************************************)
(* Model of the usage-gated request lifecycle of ReviewBot Pro:            *)
(*   server.js            app-level rate limiters and route mounting       *)
(*   middleware/auth.js   authenticateToken, checkUsageLimit,              *)
(*                        blacklistToken, incrementUsage                   *)
(*   routes/responses.js  POST /api/responses                              *)
(*   config/redis.js      set / exists (errors are swallowed)              *)
(*   middleware/errorHandler.js  asyncHandler / errorHandler               *)
(*   routes/auth.js       logout, refresh, reset-password                  *)
(*   services/openaiService.js  sentiment, generation, batch               *)
(* One caller (one users row, one client IP) issues requests that run      *)
(* concurrently; every awaited I/O boundary is one step of a request.      *)
(***************************************************************************)
EXTENDS Integers, Sequences, FiniteSets, TLC

\* ---------------------------------------------------------------- bounds
\* NumReq: requests of the caller; UsageLimit: users.usage_limit of the
\* caller; MaxTime: last clock value; GeneralMax, GenerateMax: the max of
\* generalLimiter (RATE_LIMIT_MAX_REQUESTS) and of generateResponseLimiter
\* (RATE_LIMIT_GENERATE_MAX), scaled down.
NumReq == 2
UsageLimit == 2
MaxTime == 2
GeneralMax == 1
GenerateMax == 1

Requests == 1..NumReq

\* ------------------------------------------------------------ credentials
\* "none": no Authorization header; "bad": jwt.verify raises
\* JsonWebTokenError; "t1": an access token signed with JWT_SECRET for the
\* caller, whose exp claim is TokenExp(t).
ValidTokens == {"t1"}
Tokens == {"none", "bad"} \cup ValidTokens

\* "p1": the password-reset token forgot-password made for the caller
\* (part_002 lines 374-378): payload {userId, purpose: 'password_reset'},
\* signed with JWT_SECRET as the access token is.
ResetTokens == {"p1"}
TokenExp(t) == MaxTime

\* Refresh tokens and reset tokens of the caller are numbered in the order
\* of their issue; NoToken: nothing presented, or no key stored; BadToken: a
\* token that jwt.verify of the route does not accept for its purpose.
NoToken == 0
BadToken == -1

\* users.trial_end_date is nullable
NoTrial == -1
TrialEnds == {NoTrial} \cup (0..(MaxTime - 1))

\* req.user not set
NoUser == -1

VARIABLES
    now,            \* wall clock (Date.now()), in whole time units
    usage,          \* users.monthly_usage of the caller, as stored
    usage0,         \* the stored monthly_usage at the start (history)
    userActive,     \* users.is_active of the caller
    trialEnd,       \* users.trial_end_date of the caller
    subActive,      \* a subscriptions row with status 'active' exists
    blacklist,      \* redis: expiry time of key blacklist:<token>, 0 = absent
    revoked,        \* tokens for which blacklistToken has returned (history)
    generalHits,    \* hit counter of generalLimiter for the client IP
    generateHits,   \* hit counter of generateResponseLimiter for the client IP
    records,        \* number of rows in generated_responses
    req,            \* the requests: position, inputs, req.user, outcome
    session,        \* redis: the caller's refresh and reset tokens; password
    gen,            \* one call into services/openaiService.js
    batch,          \* one run of openaiService.batchGenerateResponses
    limit,          \* one key of redis.incrementRateLimit and its calls
    handled,        \* one run of errorHandler
    reg,            \* the requests to POST /api/auth/register for one email
    users           \* users rows with that email: committed now, and at first

\* The state of the request lifecycle, and the components that the
\* request lifecycle leaves alone.
lifecycle == <<now, usage, usage0, userActive, trialEnd, subActive, blacklist,
               revoked, generalHits, generateHits, records, req>>

aside == <<gen, batch, limit, handled, reg, users>>

vars == <<lifecycle, session, aside>>

\* pc: where the request waits; kind, token, valid: its inputs; row: the
\* users row fetched by authenticateToken (its monthly_usage); user: req.user;
\* status, code: the response sent. History kept for the properties:
\*   trace         middleware entered, in order
\*   nexts, sent   next() calls of authenticateToken, responses sent
\*   lookups       subscription queries made
\*   quota         outcome of checkUsageLimit
\*   seen          stored monthly_usage when the request arrived
\*   expAtArrival  the token's exp had passed when the request arrived
\*   afterRevoke   blacklistToken had run for the token before arrival
\*   blAtCheck     the blacklist key was present when redis.exists ran
\*   trialAtCheck  trial window at the trial check: none, running, elapsed
\*   invoked, inserted, incremented, logged   effects of the handler
\*   failed        the awaited step of the handler that threw, if any
\* For the routes of /api/auth: presented, the refresh or reset token of
\* the body; fresh, the refresh token generated for the request;
\* afterLogout, a logout had been answered while the presented refresh
\* token was stored; afterReset, a password reset had been answered before
\* the request arrived with a token issued before that reset; email, which
\* account a forgot-password or login request names ("caller" or "other",
\* an address no account has); known, the tokens that had been handed out
\* when the request arrived; afterUse, a request with the presented token
\* had already been answered with success; afterNewer, a later login (for a
\* refresh token) or a later forgot-password (for a reset token) had
\* already been answered.
IdleReq ==
    [pc |-> "idle", kind |-> "generate", token |-> "none", valid |-> TRUE,
     afterRevoke |-> FALSE, seen |-> NoUser, expAtArrival |-> FALSE,
     blAtCheck |-> FALSE, trialAtCheck |-> "", row |-> NoUser, user |-> NoUser, status |-> 0, code |-> "",
     trace |-> <<>>, nexts |-> 0, sent |-> 0, lookups |-> 0, quota |-> "",
     invoked |-> FALSE, inserted |-> FALSE, incremented |-> FALSE,
     logged |-> FALSE, failed |-> "", presented |-> NoToken,
     fresh |-> NoToken, afterLogout |-> FALSE, afterReset |-> FALSE,
     email |-> "", known |-> {}, afterUse |-> FALSE, afterNewer |-> FALSE]

\* ------------------------------------------- middleware/errorHandler.js
\* An error as handleError inspects it: class ("ApiError" or another
\* class), statusCode (0 when it has none), code (a string, "" when it has
\* none), name, isJoi, type, response (the status of error.response, 0 when
\* there is none), openai (error.config.url names openai), details (the
\* error has a details member).
PlainError(name) ==
    [class |-> "Error", statusCode |-> 0, code |-> "", name |-> name,
     isJoi |-> FALSE, type |-> "", response |-> 0, openai |-> FALSE,
     details |-> FALSE]

\* The Error thrown by openaiService.generateResponses (line 232), and the
\* error of a query that pg could not run.
GenerationError == PlainError("Error")

DatabaseFailure == [PlainError("Error") EXCEPT !.code = "ECONNREFUSED"]

Errors ==
    {PlainError(n) : n \in {"Error", "TypeError", "JsonWebTokenError",
                            "TokenExpiredError", "NotBeforeError",
                            "ValidationError"}}
        \cup {[PlainError("error") EXCEPT !.code = c] :
                  c \in {"23505", "23503", "23502", "42P01", "42703", "28P01",
                         "28000", "3D000", "ECONNREFUSED", "LIMIT_FILE_SIZE"}}
        \cup {[PlainError("ValidationError") EXCEPT !.isJoi = TRUE,
                                                    !.details = TRUE]}
        \cup {[PlainError("Error") EXCEPT !.type = t] :
                  t \in {"StripeCardError", "StripeRateLimitError",
                         "StripeInvalidRequestError", "StripeAPIError",
                         "StripeConnectionError", "StripeAuthenticationError",
                         "StripePermissionError", "invalid_request_error"}}
        \cup {[PlainError("Error") EXCEPT !.response = s, !.openai = o] :
                  s \in {400, 401, 429, 500, 503}, o \in BOOLEAN}
        \cup {[PlainError("Error") EXCEPT !.class = "ApiError",
                                          !.statusCode = s] :
                  s \in {400, 404, 409, 503}}

\* new ApiError(statusCode, message): lines 4-16; the stack is captured
\* unless one is passed.
ApiError(statusCode, message) ==
    [statusCode |-> statusCode, message |-> message, stack |-> "trace"]

\* errorHandler.js lines 19-42.
HandleDatabaseError(error) ==
    CASE error.code = "23505" ->
             ApiError(409, "A record with this information already exists")
      [] error.code = "23503" ->
             ApiError(400, "Invalid reference to related data")
      [] error.code = "23502" -> ApiError(400, "Required field is missing")
      [] error.code = "42P01" -> ApiError(500, "Database configuration error")
      [] error.code = "42703" -> ApiError(500, "Database schema error")
      [] error.code \in {"28P01", "28000"} ->
             ApiError(500, "Database connection error")
      [] error.code = "3D000" -> ApiError(500, "Database not found")
      [] OTHER -> ApiError(500, "Database operation failed")

\* errorHandler.js lines 44-58.
HandleJWTError(error) ==
    CASE error.name = "JsonWebTokenError" ->
             ApiError(401, "Invalid authentication token")
      [] error.name = "TokenExpiredError" ->
             ApiError(401, "Authentication token has expired")
      [] error.name = "NotBeforeError" -> ApiError(401, "Token not active yet")
      [] OTHER -> ApiError(401, "Authentication failed")

\* errorHandler.js lines 60-72: for a Joi error the details are passed as
\* the stack of the ApiError.
HandleValidationError(error) ==
    IF error.isJoi
    THEN [ApiError(400, "Validation failed") EXCEPT !.stack = "details"]
    ELSE ApiError(400, "Invalid input data")

\* errorHandler.js lines 74-93.
HandleStripeError(error) ==
    CASE error.type = "StripeCardError" -> ApiError(402, "Payment failed")
      [] error.type = "StripeRateLimitError" ->
             ApiError(429, "Too many requests to payment processor")
      [] error.type = "StripeInvalidRequestError" ->
             ApiError(400, "Invalid payment request")
      [] error.type = "StripeAPIError" ->
             ApiError(502, "Payment processor error")
      [] error.type = "StripeConnectionError" ->
             ApiError(503, "Payment processor unavailable")
      [] error.type = "StripeAuthenticationError" ->
             ApiError(500, "Payment configuration error")
      [] OTHER -> ApiError(500, "Payment processing failed")

\* errorHandler.js lines 95-117, for an error that has a response.
HandleOpenAIError(error) ==
    CASE error.response = 400 -> ApiError(400, "Invalid request to AI service")
      [] error.response = 401 ->
             ApiError(500, "AI service authentication failed")
      [] error.response = 429 ->
             ApiError(429, "AI service rate limit exceeded")
      [] error.response = 500 ->
             ApiError(502, "AI service is currently unavailable")
      [] OTHER -> ApiError(502, "AI service error")

StripeTypes ==
    {"StripeCardError", "StripeRateLimitError", "StripeInvalidRequestError",
     "StripeAPIError", "StripeConnectionError", "StripeAuthenticationError",
     "StripePermissionError"}

\* Faulty variant: an error of no known kind is answered as a bad request.
HandleError_BadRequest(error) ==
    IF error.code # "" THEN HandleDatabaseError(error)
    ELSE IF error.class = "ApiError"
    THEN ApiError(error.statusCode, "api error")
    ELSE ApiError(400, "Invalid input data")

\* errorHandler.js lines 136-169, handleError. A string code is taken for
\* a database error before anything else is looked at (so the multer branch
\* of line 160 is never reached); an error of no known kind that is no
\* ApiError becomes ApiError(500).
HandleError(error) ==
    IF error.code # ""
    THEN HandleDatabaseError(error)
    ELSE IF error.name \in {"JsonWebTokenError", "TokenExpiredError",
                            "NotBeforeError"}
    THEN HandleJWTError(error)
    ELSE IF error.isJoi \/ error.name = "ValidationError"
    THEN HandleValidationError(error)
    ELSE IF error.type \in StripeTypes
    THEN HandleStripeError(error)
    ELSE IF error.response # 0 /\ error.openai
    THEN HandleOpenAIError(error)
    ELSE IF error.class # "ApiError"
    THEN ApiError(500, "Internal server error")
    ELSE ApiError(error.statusCode, "api error")

\* process.env.NODE_ENV.
Environments == {"production", "development", "test", "undefined"}

\* Faulty variant: the stack is left out in production only.
ErrorResponse_NotProduction(error, env, hasId) ==
    LET convertedError == HandleError(error)
    IN [status |-> convertedError.statusCode,
        error |-> convertedError.message,
        fields |-> {"error", "timestamp", "path", "method"}
                       \cup (IF env # "production"
                             THEN {"stack", "details"} ELSE {})
                       \cup (IF hasId THEN {"requestId"} ELSE {})]

\* errorHandler.js lines 172-216, errorHandler: the status and the JSON body
\* sent, for the error, NODE_ENV and whether req.id is set.
ErrorResponse(error, env, hasId) ==
    LET convertedError == HandleError(error)
    IN [status |-> convertedError.statusCode,
        error |-> convertedError.message,
        fields |-> {"error", "timestamp", "path", "method"}
                       \cup (IF env = "development"
                             THEN {"stack", "details"} ELSE {})
                       \cup (IF hasId THEN {"requestId"} ELSE {})]

NoResponse == [status |-> 0, error |-> "", fields |-> {}]

\* One run of errorHandler: its inputs and, once done, the response sent.
IdleHandled ==
    [error |-> GenerationError, env |-> "undefined", hasId |-> FALSE,
     done |-> FALSE, response |-> NoResponse]

\* ------------------------------------------------- the other components
\* redis keys refresh_token:<userId> and password_reset:<userId> of the
\* caller, the numbers of refresh tokens and of reset tokens issued to the
\* caller and the number of times the caller's password_hash was replaced
\* by reset-password; history: the refresh
\* tokens that were stored when a logout was answered, and the number of
\* refresh tokens issued when a password reset was answered (0: none was);
\* issuedAt, the time at which the last refresh token was signed; used and
\* spent, the refresh and the reset tokens with which a request was
\* answered with success; stale, the refresh tokens handed out before a
\* login that has been answered arrived; answered, the reset tokens whose
\* forgot-password has been answered; superseded, the reset tokens whose
\* forgot-password had been answered before a later one, answered too,
\* arrived.
\* The caller has logged in: login issued the access token "t1" and stored
\* the refresh token 1.
LoggedIn ==
    [refreshStore |-> 1, resetStore |-> NoToken, issued |-> 1, resets |-> 0,
     password |-> 0, loggedOut |-> {}, resetAt |-> 0, issuedAt |-> 0,
     used |-> {}, spent |-> {}, stale |-> {}, answered |-> {},
     superseded |-> {}]

\* batchGenerateResponses: the reviews, the position of the review in
\* hand, the two lists, the delays slept and the steps taken.
IdleBatch ==
    [pc |-> "idle", reviews |-> <<>>, i |-> 0, results |-> <<>>,
     errors |-> <<>>, delays |-> 0, log |-> <<>>]

\* incrementRateLimit: maxRequests, the stored counter of the key (0: no
\* key) and what each call returned.
IdleLimit == [maxRequests |-> 0, count |-> 0, calls |-> <<>>]

\* POST /api/auth/register for one email address.  NumReg: requests made.
NumReg == 2

Registrations == 1..NumReg

\* No error, and an error together with the statement it comes from.
NoError == [origin |-> "", error |-> PlainError("")]

TxError(origin, error) == [origin |-> origin, error |-> error]

\* The error pg raises for a second row with the same email (users.email is
\* UNIQUE, part_003 line 10).
UniqueViolation == [PlainError("error") EXCEPT !.code = "23505"]

\* pc: where the request waits; valid: the validation result; saw: rows the
\* existence check found; statements: what database.transaction sent on
\* its client, in order; released: calls of client.release(); holds: the
\* transaction has inserted a row and not ended; callback: "returned" or
\* "threw"; unique: the INSERT ran into the UNIQUE constraint; pending: the
\* error caught by transaction; rollback: "ok" or "failed"; tx: "returned"
\* or "thrown" once transaction has ended, and thrown, the error it threw;
\* status, message, tokens: the response.
IdleReg ==
    [pc |-> "idle", valid |-> TRUE, saw |-> 0, statements |-> <<>>,
     released |-> 0, holds |-> FALSE, callback |-> "", unique |-> FALSE,
     pending |-> NoError, rollback |-> "", tx |-> "", thrown |-> NoError,
     status |-> 0, message |-> "", tokens |-> FALSE]


NoUsers == [rows |-> 0, rows0 |-> 0]

\* ------------------------------------------- services/openaiService.js
\* Bounds of the service model. MaxWords: words of a review text;
\* MaxItems: items of the list the generation model replies with.
MaxWords == 3
MaxItems == 4

\* A review text is its words, joined by single spaces. The vocabulary has
\* capitalised words and words that contain a listed word.
Vocabulary == {"Good", "greatest", "bad", "HATEFUL", "fine"}

Texts == UNION {[1..n -> Vocabulary] : n \in 0..MaxWords}

\* reviewText as the caller passes it: a string, or a value that is no
\* string (undefined).
ReviewTexts ==
    {[isString |-> TRUE, words |-> t] : t \in Texts}
        \cup {[isString |-> FALSE, words |-> <<>>]}

\* openaiService.js lines 108-109.
positiveWords ==
    {"good", "great", "excellent", "amazing", "love", "perfect", "awesome"}

negativeWords ==
    {"bad", "terrible", "awful", "hate", "worst", "horrible", "disappointed"}

\* String.prototype.toLowerCase on one word of the vocabulary.
ToLowerCase(w) ==
    CASE w = "Good" -> "good"
      [] w = "HATEFUL" -> "hateful"
      [] OTHER -> w

\* The listed words that are substrings of a word (case-sensitive, as
\* String.prototype.includes is).
Substrings(w) ==
    CASE w = "good" -> {"good"}
      [] w = "greatest" -> {"great"}
      [] w = "bad" -> {"bad"}
      [] w = "hateful" -> {"hate"}
      [] OTHER -> {}

\* text.includes(word) for a listed word (none of them holds a space).
Includes(text, word) == \E i \in DOMAIN text : word \in Substrings(text[i])

\* Faulty variant: a tie between the counts is labelled positive.
FallbackSentiment_Tie(reviewText) ==
    LET text == [i \in DOMAIN reviewText |-> ToLowerCase(reviewText[i])]
        positiveCount ==
            Cardinality({word \in positiveWords : Includes(text, word)})
        negativeCount ==
            Cardinality({word \in negativeWords : Includes(text, word)})
    IN IF positiveCount >= negativeCount THEN "positive" ELSE "negative"

\* openaiService.js lines 111-118: the label of the fallback. filter keeps
\* each listed word the text includes, so a count is the number of listed
\* words found, however often each one occurs.
FallbackSentiment(reviewText) ==
    LET text == [i \in DOMAIN reviewText |-> ToLowerCase(reviewText[i])]
        positiveCount ==
            Cardinality({word \in positiveWords : Includes(text, word)})
        negativeCount ==
            Cardinality({word \in negativeWords : Includes(text, word)})
    IN IF positiveCount > negativeCount THEN "positive"
       ELSE IF negativeCount > positiveCount THEN "negative"
       ELSE "neutral"

\* Faulty variant: the fallback reports a medium confidence.
Fallback_Medium(label) ==
    [sentiment |-> label, score |-> "0.5", confidence |-> "medium",
     key_emotions |-> <<>>, main_concerns |-> <<>>]

\* openaiService.js lines 120-126: the object the catch block returns.
Fallback(label) ==
    [sentiment |-> label, score |-> "0.5", confidence |-> "low",
     key_emotions |-> <<>>, main_concerns |-> <<>>]

\* What the sentiment call can produce. kind "error": the call rejects, or
\* the reply has no choices; "unparsable": JSON.parse throws; "null": the
\* content parses to null; "scalar": it parses to a number, a string or a
\* list; "object": it parses to an object whose sentiment is label
\* ("undefined" when the object has no sentiment).
SentimentLabels == {"positive", "negative", "neutral"}

SentimentOutputs ==
    {[kind |-> k, label |-> "undefined"] :
         k \in {"error", "unparsable", "null", "scalar"}}
        \cup {[kind |-> "object", label |-> l] :
                  l \in SentimentLabels \cup {"mixed", "undefined"}}

\* The value JSON.parse gives for a reply that parses to a non-null value.
Parsed(out) ==
    IF out.kind = "object"
    THEN [sentiment |-> out.label, score |-> "0.9", confidence |-> "high",
          key_emotions |-> <<"satisfied">>, main_concerns |-> <<"service">>]
    ELSE [sentiment |-> "undefined", score |-> "undefined",
          confidence |-> "undefined", key_emotions |-> <<>>,
          main_concerns |-> <<>>]

NoAnalysis ==
    [sentiment |-> "", score |-> "", confidence |-> "",
     key_emotions |-> <<>>, main_concerns |-> <<>>]

\* openaiService.js lines 67-128, analyzeSentiment, given what the call
\* produced. The try block throws on a rejected call, on JSON.parse and on
\* analysis.sentiment of null (line 101); any other parsed value is
\* returned as it is (line 103). The catch block calls toLowerCase on
\* reviewText (line 111), which throws when reviewText is no string.
AnalyzeSentiment(reviewText, out) ==
    IF out.kind \in {"error", "unparsable", "null"}
    THEN IF reviewText.isString
         THEN [threw |-> FALSE, fallback |-> TRUE,
               value |-> Fallback(FallbackSentiment(reviewText.words))]
         ELSE [threw |-> TRUE, fallback |-> TRUE, value |-> NoAnalysis]
    ELSE [threw |-> FALSE, fallback |-> FALSE, value |-> Parsed(out)]

\* openaiService.js lines 10-39: the specialties of each business context
\* (the keywords are never read).
businessContexts ==
    [restaurant |-> "Focus on food quality, service speed, ambiance, and overall dining experience",
     salon |-> "Emphasize expertise, cleanliness, professionalism, and customer satisfaction",
     retail |-> "Focus on product quality, customer service, value, and shopping experience",
     medical |-> "Emphasize professionalism, care quality, staff expertise, and patient comfort",
     automotive |-> "Focus on technical expertise, reliability, honesty, and customer service",
     hotel |-> "Focus on comfort, service quality, amenities, and overall guest experience"]
        @@ ("professional services" :>
                "Emphasize expertise, professionalism, results, and client satisfaction")

\* openaiService.js lines 42-48.
toneInstructions ==
    [professional |-> "Use formal, business-appropriate language. Be courteous and maintain professional boundaries.",
     friendly |-> "Use warm, conversational tone. Be personable while remaining appropriate.",
     apologetic |-> "Express genuine remorse and commitment to improvement. Focus on making things right.",
     grateful |-> "Express sincere appreciation and gratitude. Highlight positive aspects mentioned.",
     formal |-> "Use very formal, traditional business language. Be respectful and conservative in tone."]

\* openaiService.js lines 51-64: the approach of each strategy.
sentimentStrategies ==
    [positive |-> "Express gratitude, reinforce positive experience, encourage future visits",
     negative |-> "Acknowledge concerns, apologize sincerely, offer resolution, invite direct contact",
     neutral |-> "Thank for feedback, provide helpful information, encourage future engagement"]

\* The three tables are object literals, so table[key] also finds the
\* members every object inherits; each of them is truthy.
ObjectPrototypeKeys ==
    {"constructor", "toString", "toLocaleString", "valueOf",
     "hasOwnProperty", "isPrototypeOf", "propertyIsEnumerable", "__proto__"}

\* openaiService.js line 134 with line 140: the specialties the prompt
\* carries. An inherited member has no specialties: the template prints
\* "undefined".
BusinessContext(businessType) ==
    IF businessType \in DOMAIN businessContexts
    THEN businessContexts[businessType]
    ELSE IF businessType \in ObjectPrototypeKeys
    THEN "undefined"
    ELSE businessContexts["professional services"]

\* openaiService.js line 135 with line 141: the tone instruction the prompt
\* carries. An inherited member is printed as its source text.
ToneInstruction(tone) ==
    IF tone \in DOMAIN toneInstructions
    THEN toneInstructions[tone]
    ELSE IF tone \in ObjectPrototypeKeys
    THEN "[native code]"
    ELSE toneInstructions["professional"]

NoPrompt == [specialties |-> "", toneInstruction |-> "", approach |-> ""]

\* Faulty variant: an unknown label falls back to the neutral strategy.
ComposePrompt_DefaultStrategy(businessType, tone, label) ==
    [threw |-> FALSE,
     prompt |-> [specialties |-> BusinessContext(businessType),
                 toneInstruction |-> ToneInstruction(tone),
                 approach |-> IF label \in DOMAIN sentimentStrategies
                              THEN sentimentStrategies[label]
                              ELSE sentimentStrategies["neutral"]]]

\* openaiService.js lines 134-175: the lookups and the two prompts. Line
\* 136 has no default: for a label outside the table, strategy is undefined
\* or an inherited member without elements, and line 142 or 149 throws.
ComposePrompt(businessType, tone, label) ==
    IF label \in DOMAIN sentimentStrategies
    THEN [threw |-> FALSE,
          prompt |-> [specialties |-> BusinessContext(businessType),
                      toneInstruction |-> ToneInstruction(tone),
                      approach |-> sentimentStrategies[label]]]
    ELSE [threw |-> TRUE, prompt |-> NoPrompt]

\* An item of the list the generation model replies with: fields are the
\* members it has; spaces is the number of space characters of its
\* response; id, tone and sentiment_addressed are its own values for the
\* members the enrichment sets.
PlainItem(n) ==
    [fields |-> {"response", "length", "key_points"}, spaces |-> n,
     id |-> 0, tone |-> "", sentiment_addressed |-> ""]

Items ==
    {PlainItem(0), PlainItem(200),
     [fields |-> {"response", "id", "tone", "sentiment_addressed"},
      spaces |-> 199, id |-> 7, tone |-> "rude",
      sentiment_addressed |-> "angry"],
     [fields |-> {"length", "key_points"}, spaces |-> 0,
      id |-> 0, tone |-> "", sentiment_addressed |-> ""]}

\* What the generation call can produce. kind "error": the call rejects;
\* "unparsable": JSON.parse throws; "nonlist": the content parses to a
\* value without map (null, a number, a string, an object); "list": it
\* parses to the list items.
GenerationOutputs ==
    {[kind |-> k, items |-> <<>>] : k \in {"error", "unparsable", "nonlist"}}
        \cup {[kind |-> "list", items |-> l] :
                  l \in UNION {[1..n -> Items] : n \in 0..MaxItems}}

WordsPerMinute == 200

\* Faulty variant: the quotient is rounded down.
EstimatedReadingTime_Floor(spaces) == (spaces + 1) \div WordsPerMinute

\* openaiService.js line 207: split(' ') gives one piece more than the
\* text has spaces; Math.ceil of the quotient by 200.
EstimatedReadingTime(spaces) ==
    LET length == spaces + 1
    IN IF length % WordsPerMinute = 0
       THEN length \div WordsPerMinute
       ELSE (length \div WordsPerMinute) + 1

\* Faulty variant: an item without response counts as an empty text.
EnhancedResponses_EmptyText(generatedResponses, tone, label) ==
    [threw |-> FALSE,
     responses |->
         [i \in DOMAIN generatedResponses |->
              [spaces |-> generatedResponses[i].spaces, id |-> i,
               tone |-> tone, sentiment_addressed |-> label,
               estimated_reading_time |->
                   EstimatedReadingTime(generatedResponses[i].spaces)]]]

\* Faulty variant: the item is spread after the enrichment members.
EnhancedResponses_SpreadLast(generatedResponses, tone, label) ==
    IF \E i \in DOMAIN generatedResponses :
           "response" \notin generatedResponses[i].fields
    THEN [threw |-> TRUE, responses |-> <<>>]
    ELSE [threw |-> FALSE,
          responses |->
              [i \in DOMAIN generatedResponses |->
                   LET resp == generatedResponses[i]
                   IN [spaces |-> resp.spaces,
                       id |-> IF "id" \in resp.fields THEN resp.id ELSE i,
                       tone |-> IF "tone" \in resp.fields
                                THEN resp.tone ELSE tone,
                       sentiment_addressed |->
                           IF "sentiment_addressed" \in resp.fields
                           THEN resp.sentiment_addressed ELSE label,
                       estimated_reading_time |->
                           EstimatedReadingTime(resp.spaces)]]]

\* openaiService.js lines 202-208: map over the parsed list. The item is
\* spread first, so id (index + 1; sequences here count from 1), tone and
\* sentiment_addressed replace its own members. resp.response.split throws
\* for an item without response, and map then produces nothing.
EnhancedResponses(generatedResponses, tone, label) ==
    IF \E i \in DOMAIN generatedResponses :
           "response" \notin generatedResponses[i].fields
    THEN [threw |-> TRUE, responses |-> <<>>]
    ELSE [threw |-> FALSE,
          responses |->
              [i \in DOMAIN generatedResponses |->
                   [spaces |-> generatedResponses[i].spaces, id |-> i,
                    tone |-> tone, sentiment_addressed |-> label,
                    estimated_reading_time |->
                        EstimatedReadingTime(generatedResponses[i].spaces)]]]

\* openaiService.js line 232.
GenerationFailed == "Failed to generate review responses. Please try again."

\* The exported functions of the service that are called directly, and the
\* business type and tone a call passes: each supported value, a value no
\* table has, and a member name every object inherits.
Entries == {"analyzeSentiment", "generateResponses", "generateSingleResponse"}

BusinessTypes == DOMAIN businessContexts \cup {"bakery", "constructor"}

Tones == DOMAIN toneInstructions \cup {"sarcastic", "toString"}

NoSentimentOutput == [kind |-> "none", label |-> ""]

NoGenerationOutput == [kind |-> "none", items |-> <<>>]

NoSingle == [response |-> -1, sentiment |-> NoAnalysis]

\* entry, reviewText, businessType, tone: the call; pc: "classifying" while
\* the sentiment call is pending, "generating" while the generation call is
\* pending, then "returned" or "thrown"; sentimentOutput, generationOutput:
\* what the two calls produced; fallback: the catch block of
\* analyzeSentiment ran; sentiment: the value analyzeSentiment returned;
\* prompt: the composed prompt; responses: the list generateResponses
\* returned; single: what generateSingleResponse returned; error: the
\* message thrown; log: the steps taken, in order.
IdleGen ==
    [entry |-> "", pc |-> "idle",
     reviewText |-> [isString |-> TRUE, words |-> <<>>],
     businessType |-> "", tone |-> "",
     sentimentOutput |-> NoSentimentOutput,
     generationOutput |-> NoGenerationOutput,
     fallback |-> FALSE, sentiment |-> NoAnalysis, prompt |-> NoPrompt,
     responses |-> <<>>, single |-> NoSingle, error |-> "", log |-> <<>>]

Init ==
    /\ now = 0
    /\ usage \in 0..UsageLimit
    /\ usage0 = usage
    /\ userActive \in BOOLEAN
    /\ trialEnd \in TrialEnds
    /\ subActive \in BOOLEAN
    /\ blacklist = [t \in ValidTokens |-> 0]
    /\ revoked = {}
    /\ generalHits = 0
    /\ generateHits = 0
    /\ records = 0
    /\ req = [r \in Requests |-> IdleReq]
    /\ session = LoggedIn
    /\ gen = IdleGen
    /\ batch = IdleBatch
    /\ limit = IdleLimit
    /\ handled = IdleHandled
    /\ reg = [r \in Registrations |-> IdleReg]
    /\ users = NoUsers

\* ------------------------------------------------------- record helpers
\* res.status(s).json({... code ...}) followed by return: the request ends.
Respond(q, s, c) ==
    [q EXCEPT !.pc = "done", !.status = s, !.code = c, !.sent = @ + 1]

Visit(q, stage) == [q EXCEPT !.trace = Append(@, stage)]

\* ------------------------------------------------------- pure decisions
\* jwt.verify(token, JWT_SECRET): the signature is checked, then exp.
JwtVerify(t, clock) ==
    IF t \notin ValidTokens \cup ResetTokens THEN "JsonWebTokenError"
    ELSE IF clock >= TokenExp(t) THEN "TokenExpiredError"
    ELSE "ok"

\* Faulty variant: an error of the cache counts as "present" (fail closed).
RedisExists_Closed(expiry, clock, ok) == ~ok \/ expiry > clock

\* redis.exists(key): result === 1 when the key is present and has not yet
\* expired; any error of the cache is caught and answered with false.
RedisExists(expiry, clock, ok) == ok /\ expiry > clock

\* redis.set(key, true, ttl): SETEX stores the key until clock + ttl; any
\* error of the cache is caught (the key stays as it was).
RedisSet(expiry, clock, ttl, ok) == IF ok THEN clock + ttl ELSE expiry

\* express-rate-limit: the hit is counted first, then compared with max.
LimitExceeded(hits, max) == hits > max

\* Faulty variant: the trial ends one instant early (>= for >).
TrialExpired_Ge(end, clock) == end # NoTrial /\ clock >= end

\* user.trial_end_date && new Date() > new Date(user.trial_end_date)
TrialExpired(end, clock) == end # NoTrial /\ clock > end

\* Faulty variants: the boundary admitted (> for >=); the gate never
\* rejecting.
CheckUsageLimit_Gt(monthly_usage, usage_limit) ==
    IF monthly_usage > usage_limit THEN "reject" ELSE "next"

CheckUsageLimit_Never(monthly_usage, usage_limit) == "next"

\* checkUsageLimit: monthly_usage >= usage_limit of req.user
CheckUsageLimit(monthly_usage, usage_limit) ==
    IF monthly_usage >= usage_limit THEN "reject" ELSE "next"

\* --------------------------------------------- POST /api/responses chain
\* The handler of routes/responses.js up to its first await: validation
\* result, then the call of openaiService.generateResponses.
HandlerStart(q) ==
    LET q1 == Visit(q, "validation") IN
    IF ~q.valid THEN Respond(q1, 400, "VALIDATION_FAILED")
    ELSE [Visit(q1, "generate") EXCEPT !.pc = "generating", !.invoked = TRUE]

\* Faulty variant: the 429 is sent without return, the chain goes on.
QuotaGate_NoReturn(q) ==
    LET q1 == Visit(q, "quota") IN
    IF CheckUsageLimit(q.user, UsageLimit) = "reject"
    THEN HandlerStart(Respond([q1 EXCEPT !.quota = "reject"], 429,
                              "USAGE_LIMIT_EXCEEDED"))
    ELSE HandlerStart([q1 EXCEPT !.quota = "next"])

\* checkUsageLimit as mounted in the route: 429 and return, or next().
QuotaGate(q) ==
    LET q1 == Visit(q, "quota") IN
    IF CheckUsageLimit(q.user, UsageLimit) = "reject"
    THEN Respond([q1 EXCEPT !.quota = "reject"], 429, "USAGE_LIMIT_EXCEEDED")
    ELSE HandlerStart([q1 EXCEPT !.quota = "next"])

\* Faulty variant: the route mounted without checkUsageLimit.
AfterAuthenticate_SkipQuota(q) ==
    IF q.kind = "logout" THEN [q EXCEPT !.pc = "blacklisting"]
    ELSE HandlerStart(q)

\* What runs synchronously inside next() of authenticateToken.
AfterAuthenticate(q) ==
    IF q.kind = "logout" THEN [q EXCEPT !.pc = "blacklisting"]
    ELSE QuotaGate(q)

\* authenticateToken lines 68-79: attach the fetched row, call next().
Admit(q, row) ==
    AfterAuthenticate([q EXCEPT !.user = row, !.nexts = @ + 1])

\* authenticateToken lines 9-23: header, jwt.verify, then redis.exists is
\* awaited.
AuthenticateHead(q, clock) ==
    LET q1 == Visit(q, "authenticate") IN
    IF q.token = "none" THEN Respond(q1, 401, "TOKEN_REQUIRED")
    ELSE IF JwtVerify(q.token, clock) = "JsonWebTokenError"
         THEN Respond(q1, 401, "INVALID_TOKEN")
    ELSE IF JwtVerify(q.token, clock) = "TokenExpiredError"
         THEN Respond(q1, 401, "TOKEN_EXPIRED")
    ELSE [q1 EXCEPT !.pc = "blacklist"]

\* server.js line 107 for kind "generate": generateResponseLimiter, then the
\* router; /api/auth/logout is mounted without that limiter. (The
\* authMiddleware argument of line 107 is the exports object of
\* middleware/auth.js, not a handler; the authentication that runs is the
\* authenticateToken of the router chain.)
AfterGeneralLimiter(q, hits, clock) ==
    IF q.kind = "generate"
    THEN LET q1 == Visit(q, "generateResponseLimiter") IN
         IF LimitExceeded(hits, GenerateMax)
         THEN Respond(q1, 429, "RATE_LIMIT_GENERATE")
         ELSE AuthenticateHead(q1, clock)
    ELSE AuthenticateHead(q, clock)

\* ----------------------------------------------------------------- actions
Set(r, q) == req' = [req EXCEPT ![r] = q]

\* A request arrives: generalLimiter (server.js line 91), then the mounted
\* chain up to the first awaited I/O.
Arrive(r, k, t, v) ==
    /\ req[r].pc = "idle"
    /\ k = "logout" => v
    /\ generalHits' = generalHits + 1
    /\ LET q0 == Visit([req[r] EXCEPT !.kind = k, !.token = t, !.valid = v,
                                      !.afterRevoke = (t \in revoked),
                                      !.afterReset = (t \in ValidTokens
                                                      /\ session.resetAt > 0),
                                      !.seen = usage,
                                      !.expAtArrival =
                                          (t \in ValidTokens /\ now >= TokenExp(t))],
                       "generalLimiter")
           pass == ~LimitExceeded(generalHits + 1, GeneralMax)
       IN /\ generateHits' = IF pass /\ k = "generate"
                             THEN generateHits + 1 ELSE generateHits
          /\ Set(r, IF pass
                    THEN AfterGeneralLimiter(q0, generateHits + 1, now)
                    ELSE Respond(q0, 429, "RATE_LIMIT_GENERAL"))
    /\ UNCHANGED <<aside, session, now, usage, usage0, userActive, trialEnd, subActive,
                   blacklist, revoked, records>>

\* authenticateToken lines 23-29: the answer of redis.exists.
AuthBlacklist(r, ok) ==
    /\ req[r].pc = "blacklist"
    /\ LET q == [req[r] EXCEPT !.blAtCheck = (blacklist[req[r].token] > now)]
       IN Set(r, IF RedisExists(blacklist[q.token], now, ok)
                 THEN Respond(q, 401, "TOKEN_INVALIDATED")
                 ELSE [q EXCEPT !.pc = "user"])
    /\ UNCHANGED <<aside, session, now, usage, usage0, userActive, trialEnd, subActive,
                   blacklist, revoked, generalHits, generateHits, records>>

\* authenticateToken lines 31-66: the users row, then the trial check.
AuthUser(r, ok) ==
    /\ req[r].pc = "user"
    /\ Set(r, IF ~ok THEN Respond(req[r], 500, "AUTH_FAILED")
              ELSE IF ~userActive THEN Respond(req[r], 401, "USER_NOT_FOUND")
              ELSE LET q1 == Visit([req[r] EXCEPT
                                        !.row = usage,
                                        !.trialAtCheck =
                                            IF trialEnd = NoTrial THEN "none"
                                            ELSE IF now > trialEnd THEN "elapsed"
                                            ELSE "running"], "trial") IN
                   IF TrialExpired(trialEnd, now)
                   THEN [q1 EXCEPT !.pc = "sub", !.lookups = @ + 1]
                   ELSE Admit(q1, q1.row))
    /\ UNCHANGED <<aside, session, now, usage, usage0, userActive, trialEnd, subActive,
                   blacklist, revoked, generalHits, generateHits, records>>

\* authenticateToken lines 53-66: the answer of the subscriptions query.
AuthSubscription(r, ok) ==
    /\ req[r].pc = "sub"
    /\ Set(r, IF ~ok THEN Respond(req[r], 500, "AUTH_FAILED")
              ELSE IF ~subActive THEN Respond(req[r], 402, "TRIAL_EXPIRED")
              ELSE Admit(req[r], req[r].row))
    /\ UNCHANGED <<aside, session, now, usage, usage0, userActive, trialEnd, subActive,
                   blacklist, revoked, generalHits, generateHits, records>>

\* Faulty variant: the error is swallowed and the handler goes on to
\* incrementUsage.
HandlerError_Swallow(q, error) == [q EXCEPT !.pc = "incrementing"]

\* asyncHandler + errorHandler: a rejected handler promise goes to next(err)
\* and is answered by the error middleware with the status and the message
\* of the converted error.
HandlerError(q, error) ==
    LET convertedError == HandleError(error)
    IN Respond(q, convertedError.statusCode, convertedError.message)

\* routes/responses.js line 40: openaiService.generateResponses settles.
GenerateResponses(r, ok) ==
    /\ req[r].pc = "generating"
    /\ Set(r, IF ok THEN [req[r] EXCEPT !.pc = "inserting"]
              ELSE HandlerError([req[r] EXCEPT !.failed = "generation"],
                                GenerationError))
    /\ UNCHANGED <<aside, session, now, usage, usage0, userActive, trialEnd, subActive,
                   blacklist, revoked, generalHits, generateHits, records>>

\* routes/responses.js lines 43-51: INSERT INTO generated_responses.
InsertResponse(r, ok) ==
    /\ req[r].pc = "inserting"
    /\ records' = IF ok THEN records + 1 ELSE records
    /\ Set(r, IF ok THEN [req[r] EXCEPT !.pc = "incrementing", !.inserted = TRUE]
              ELSE HandlerError([req[r] EXCEPT !.failed = "insert"],
                                DatabaseFailure))
    /\ UNCHANGED <<aside, session, now, usage, usage0, userActive, trialEnd, subActive,
                   blacklist, revoked, generalHits, generateHits>>

\* Faulty variants: the UPDATE lost; the UPDATE applied twice; req.user bumped
\* before the UPDATE is known to have succeeded.
IncrementStored_Noop(stored, ok) == stored
IncrementStored_Twice(stored, ok) == IF ok THEN stored + 2 ELSE stored
IncrementSnapshot_Always(q, ok) ==
    IF ok THEN [q EXCEPT !.user = @ + 1, !.incremented = TRUE]
    ELSE [q EXCEPT !.user = @ + 1]

\* Faulty variant: read, add, write back: the value read at the start is
\* the one incremented, and a concurrent increment is lost.
IncrementStored_Stale(stored, ok) == IF ok THEN usage0 + 1 ELSE stored

\* incrementUsage (auth.js lines 261-277): what the UPDATE leaves in
\* users.monthly_usage and in req.user.monthly_usage.
IncrementStored(stored, ok) == IF ok THEN stored + 1 ELSE stored
IncrementSnapshot(q, ok) ==
    IF ok THEN [q EXCEPT !.user = @ + 1, !.incremented = TRUE] ELSE q

\* routes/responses.js lines 53-74: incrementUsage, the business log entry
\* and the 201 response.
IncrementUsage(r, ok) ==
    /\ req[r].pc = "incrementing"
    /\ usage' = IncrementStored(usage, ok)
    /\ Set(r, Respond([IncrementSnapshot(req[r], ok) EXCEPT !.logged = TRUE],
                      201, "CREATED"))
    /\ UNCHANGED <<aside, session, now, usage0, userActive, trialEnd, subActive,
                   blacklist, revoked, generalHits, generateHits, records>>

\* blacklistToken (auth.js lines 227-241): the key lives for the rest of the
\* token's lifetime; nothing is stored when that is not positive.
BlacklistExpiry(expiry, t, clock, ok) ==
    LET ttlSeconds == TokenExp(t) - clock IN
    IF ttlSeconds > 0 THEN RedisSet(expiry, clock, ttlSeconds, ok) ELSE expiry

\* redis.del(key) (part_001 lines 106-117): the key is removed; any error
\* of the cache is caught (the key stays as it was).
RedisDel(stored, ok) == IF ok THEN NoToken ELSE stored

\* POST /api/auth/logout (part_002 lines 319-343): blacklistToken(req.token),
\* redis.del of the caller's refresh_token key, then 200.  (A refresh token
\* given in the body is blacklisted too; no route looks that key up.)
Logout(r, ok, okDel) ==
    /\ req[r].pc = "blacklisting"
    /\ blacklist' = [blacklist EXCEPT ![req[r].token] =
                        BlacklistExpiry(@, req[r].token, now, ok)]
    /\ revoked' = revoked \cup {req[r].token}
    /\ session' = [session EXCEPT
           !.refreshStore = RedisDel(@, okDel),
           !.loggedOut = @ \cup ({session.refreshStore} \ {NoToken})]
    /\ Set(r, Respond(req[r], 200, "LOGOUT"))
    /\ UNCHANGED <<aside, now, usage, usage0, userActive, trialEnd, subActive,
                   generalHits, generateHits, records>>

\* Time passes.
Tick ==
    /\ now < MaxTime
    /\ now' = now + 1
    /\ UNCHANGED <<aside, session, usage, usage0, userActive, trialEnd, subActive, blacklist,
                   revoked, generalHits, generateHits, records, req>>

\* The window of a limiter's store ends: its counters start again.
ResetGeneral ==
    /\ generalHits > 0
    /\ generalHits' = 0
    /\ UNCHANGED <<aside, session, now, usage, usage0, userActive, trialEnd, subActive,
                   blacklist, revoked, generateHits, records, req>>

ResetGenerate ==
    /\ generateHits > 0
    /\ generateHits' = 0
    /\ UNCHANGED <<aside, session, now, usage, usage0, userActive, trialEnd, subActive,
                   blacklist, revoked, generalHits, records, req>>

Kinds == {"generate", "logout"}

Step(r) ==
    \/ \E ok \in BOOLEAN : AuthBlacklist(r, ok)
    \/ \E ok \in BOOLEAN : AuthUser(r, ok)
    \/ \E ok \in BOOLEAN : AuthSubscription(r, ok)
    \/ \E ok \in BOOLEAN : GenerateResponses(r, ok)
    \/ \E ok \in BOOLEAN : InsertResponse(r, ok)
    \/ \E ok \in BOOLEAN : IncrementUsage(r, ok)
    \/ \E ok \in BOOLEAN, okDel \in BOOLEAN : Logout(r, ok, okDel)

Environment == Tick \/ ResetGeneral \/ ResetGenerate

Next ==
    \/ \E r \in Requests, k \in Kinds, t \in Tokens, v \in BOOLEAN :
           Arrive(r, k, t, v)
    \/ \E r \in Requests : Step(r)
    \/ Environment

Spec == Init /\ [][Next]_vars

\* The same program when the caller issues its requests strictly one after
\* another: a request arrives only when no other request is in flight.
NoneInFlight == \A o \in Requests : req[o].pc \in {"idle", "done"}

ArriveSeq(r, k, t, v) == NoneInFlight /\ Arrive(r, k, t, v)

NextSeq ==
    \/ \E r \in Requests, k \in Kinds, t \in Tokens, v \in BOOLEAN :
           ArriveSeq(r, k, t, v)
    \/ \E r \in Requests : Step(r)
    \/ Environment

SpecSeq == Init /\ [][NextSeq]_vars

\* ------------------------------------- calls into services/openaiService.js
\* Faulty variant: the catch block rethrows the error it caught.
Throw_Rethrow(g) ==
    [g EXCEPT !.pc = "thrown", !.responses = <<>>,
              !.error = IF g.generationOutput.kind = "error"
                        THEN "429 Rate limit reached for gpt-4"
                        ELSE "TypeError"]

\* The catch block of generateResponses, lines 230-233.
Throw(g) ==
    [g EXCEPT !.pc = "thrown", !.error = GenerationFailed,
              !.responses = <<>>]

\* Faulty variant: the last candidate is returned.
SingleResponse_Last(g) ==
    IF g.pc = "thrown"
    THEN g
    ELSE IF g.responses = <<>>
    THEN [g EXCEPT !.pc = "thrown", !.error = "TypeError"]
    ELSE [g EXCEPT !.single = [response |-> g.responses[Len(g.responses)].spaces,
                               sentiment |-> g.sentiment]]

\* generateSingleResponse, lines 237-251, once its generateResponses call
\* has settled as g: an error is rethrown as it is; otherwise the text of
\* the first candidate and the sentiment are returned. responses[0] is
\* undefined for an empty list, and reading its response throws.
SingleResponse(g) ==
    IF g.pc = "thrown"
    THEN g
    ELSE IF g.responses = <<>>
    THEN [g EXCEPT !.pc = "thrown", !.error = "TypeError"]
    ELSE [g EXCEPT !.single = [response |-> g.responses[1].spaces,
                               sentiment |-> g.sentiment]]

\* What the caller of the exported function gets once generateResponses has
\* settled as g.
Settle(g) ==
    IF g.entry = "generateSingleResponse" /\ g.pc \in {"returned", "thrown"}
    THEN SingleResponse(g)
    ELSE g

\* generateResponses from the result of line 133 to the generation call of
\* line 177: a throw of analyzeSentiment or of the prompt composition
\* reaches the catch block before any call is made.
AfterSentiment(g, res) ==
    IF res.threw
    THEN Throw(g)
    ELSE LET c == ComposePrompt(g.businessType, g.tone, res.value.sentiment)
         IN IF c.threw
            THEN Throw(g)
            ELSE [g EXCEPT !.pc = "generating", !.prompt = c.prompt,
                           !.log = @ \o <<"prompt_composed",
                                          "generation_call">>]

\* The sentiment call of line 69 settles with out and analyzeSentiment
\* finishes; for a call of generateResponses the function runs on to its
\* next await.
SentimentStep(g, out) ==
    LET res == AnalyzeSentiment(g.reviewText, out)
        g1 == [g EXCEPT !.sentimentOutput = out,
                        !.fallback = res.fallback,
                        !.sentiment = res.value,
                        !.log = Append(@, IF res.threw
                                          THEN "sentiment_threw"
                                          ELSE "sentiment_done")]
    IN IF g.entry # "analyzeSentiment"
       THEN Settle(AfterSentiment(g1, res))
       ELSE IF res.threw
       THEN [g1 EXCEPT !.pc = "thrown", !.error = "TypeError"]
       ELSE [g1 EXCEPT !.pc = "returned"]

SentimentSettles(out) ==
    /\ gen.pc = "classifying"
    /\ gen' = SentimentStep(gen, out)
    /\ UNCHANGED <<lifecycle, session, reg, users, batch, limit, handled>>

\* The generation call of line 177 settles with out: lines 199-233.
\* JSON.parse or map throws unless the content is a list; line 211 reads
\* reviewText.length, which throws when reviewText is undefined.
GenerationStep(g, out) ==
    LET g1 == [g EXCEPT !.generationOutput = out,
                        !.log = Append(@, "generation_done")]
        e == EnhancedResponses(out.items, g.tone, g.sentiment.sentiment)
    IN Settle(IF out.kind # "list" \/ e.threw \/ ~g.reviewText.isString
              THEN Throw(g1)
              ELSE [g1 EXCEPT !.pc = "returned", !.responses = e.responses])

GenerationSettles(out) ==
    /\ gen.pc = "generating"
    /\ gen' = GenerationStep(gen, out)
    /\ UNCHANGED <<lifecycle, session, reg, users, batch, limit, handled>>

\* The calls made: analyzeSentiment with any review text; generateResponses
\* with a short review text and each business type and each tone;
\* generateSingleResponse with an empty review text or none.
Called(entry, reviewText, businessType, tone) ==
    [IdleGen EXCEPT !.entry = entry, !.pc = "classifying",
                    !.reviewText = reviewText,
                    !.businessType = businessType, !.tone = tone,
                    !.log = <<"sentiment_call">>]

ServiceCalls ==
    {Called("analyzeSentiment", t, "", "") : t \in ReviewTexts}
        \cup {Called("generateResponses", t, b, "professional") :
                  t \in {x \in ReviewTexts : Len(x.words) <= 1},
                  b \in BusinessTypes}
        \cup {Called("generateResponses", t, "restaurant", o) :
                  t \in {x \in ReviewTexts : Len(x.words) = 0},
                  o \in Tones}
        \cup {Called("generateResponses", t, "constructor", "toString") :
                  t \in {x \in ReviewTexts : Len(x.words) = 0}}
        \cup {Called("generateSingleResponse", t, "hotel", "formal") :
                  t \in {x \in ReviewTexts : Len(x.words) = 0}}

\* No request is made while a component is run on its own.
LifecycleIdle ==
    /\ now = 0
    /\ usage = 0
    /\ usage0 = 0
    /\ userActive = TRUE
    /\ trialEnd = NoTrial
    /\ subActive = FALSE
    /\ blacklist = [t \in ValidTokens |-> 0]
    /\ revoked = {}
    /\ generalHits = 0
    /\ generateHits = 0
    /\ records = 0
    /\ req = [r \in Requests |-> IdleReq]
    /\ session = LoggedIn
    /\ reg = [r \in Registrations |-> IdleReg]

InitService ==
    /\ LifecycleIdle
    /\ users = NoUsers
    /\ gen \in ServiceCalls
    /\ batch = IdleBatch
    /\ limit = IdleLimit
    /\ handled = IdleHandled

NextService ==
    \/ \E out \in SentimentOutputs : SentimentSettles(out)
    \/ \E out \in GenerationOutputs : GenerationSettles(out)

SpecService == InitService /\ [][NextService]_vars

\* ------------------------------------------------------------ properties
Has(q, stage) == \E i \in DOMAIN q.trace : q.trace[i] = stage

Incremented == {r \in Requests : req[r].incremented}
Inserted == {r \in Requests : req[r].inserted}

\* C1: checkUsageLimit answers 429 / USAGE_LIMIT_EXCEEDED without calling
\* next exactly when the monthly_usage it reads from req.user is >= the
\* usage_limit, and calls next exactly when it is smaller; equality rejects.
Thm_C1 ==
    \A r \in Requests :
        Has(req[r], "quota") =>
            /\ (req[r].row >= UsageLimit) <=>
                   (/\ req[r].status = 429
                    /\ req[r].code = "USAGE_LIMIT_EXCEEDED"
                    /\ req[r].quota = "reject"
                    /\ ~Has(req[r], "validation"))
            /\ (req[r].row < UsageLimit) <=>
                   (req[r].quota = "next" /\ Has(req[r], "validation"))

W_C1 ==
    \E r \in Requests :
        /\ req[r].row = UsageLimit
        /\ req[r].quota = "reject"
        /\ req[r].status = 429

\* C2 as stated: requests one after another, starting from monthly_usage =
\* usage_limit - 1: only one request is admitted and completed (201).
CE_C2 ==
    usage0 = UsageLimit - 1 =>
        Cardinality({r \in Requests : req[r].status = 201}) <= 1

\* C2 amended: requests one after another, starting from monthly_usage =
\* usage_limit - 1: every request reaching the quota gate is admitted while
\* the stored usage it arrived at is below the limit and rejected (429) once
\* it is at the limit; at most one request gets its increment applied, and
\* the stored usage is the start value plus the applied increments.
Thm_C2 ==
    usage0 = UsageLimit - 1 =>
        /\ usage = usage0 + Cardinality(Incremented)
        /\ Cardinality(Incremented) <= 1
        /\ \A r \in Requests :
               Has(req[r], "quota") =>
                   /\ req[r].seen >= UsageLimit =>
                          req[r].quota = "reject" /\ req[r].status = 429
                   /\ req[r].seen < UsageLimit => req[r].quota = "next"

W_C2 ==
    /\ usage0 = UsageLimit - 1
    /\ \E r1, r2 \in Requests :
           /\ req[r1].status = 201 /\ req[r1].incremented
           /\ req[r2].seen = UsageLimit
           /\ req[r2].code = "USAGE_LIMIT_EXCEEDED"

\* C3: the quota gate decides on the snapshot fetched by authenticateToken,
\* not on the stored counter: every admitted request read a snapshot below
\* the limit, and the stored monthly_usage exceeds usage_limit only when two
\* different requests were both admitted on such a snapshot and both
\* incremented.
Thm_C3 ==
    /\ \A r \in Requests : req[r].quota = "next" => req[r].row < UsageLimit
    /\ usage > UsageLimit =>
           \E r1, r2 \in Requests :
               /\ r1 # r2
               /\ req[r1].incremented /\ req[r1].row < UsageLimit
               /\ req[r2].incremented /\ req[r2].row < UsageLimit

W_C3 ==
    /\ usage > UsageLimit
    /\ \E r1, r2 \in Requests :
           /\ r1 # r2
           /\ req[r1].row = UsageLimit - 1 /\ req[r1].incremented
           /\ req[r2].row = UsageLimit - 1 /\ req[r2].incremented

\* The order of the gates as C4 states it, and as the code mounts them.
ClaimRank(stage) ==
    CASE stage = "authenticate" -> 1
      [] stage = "trial" -> 2
      [] stage = "quota" -> 3
      [] stage \in {"generalLimiter", "generateResponseLimiter"} -> 4
      [] stage = "validation" -> 5
      [] stage = "generate" -> 6

CodeOrder ==
    <<"generalLimiter", "generateResponseLimiter", "authenticate", "trial",
      "quota", "validation", "generate">>

IsPrefix(a, b) ==
    /\ Len(a) <= Len(b)
    /\ \A i \in 1..Len(a) : a[i] = b[i]

\* The gate that sends each rejection.
GateOf(code) ==
    CASE code = "RATE_LIMIT_GENERAL" -> "generalLimiter"
      [] code = "RATE_LIMIT_GENERATE" -> "generateResponseLimiter"
      [] code \in {"TOKEN_REQUIRED", "INVALID_TOKEN", "TOKEN_EXPIRED",
                   "TOKEN_INVALIDATED", "USER_NOT_FOUND"} -> "authenticate"
      [] code = "TRIAL_EXPIRED" -> "trial"
      [] code = "USAGE_LIMIT_EXCEEDED" -> "quota"

GateCodes ==
    {"RATE_LIMIT_GENERAL", "RATE_LIMIT_GENERATE", "TOKEN_REQUIRED",
     "INVALID_TOKEN", "TOKEN_EXPIRED", "TOKEN_INVALIDATED", "USER_NOT_FOUND",
     "TRIAL_EXPIRED", "USAGE_LIMIT_EXCEEDED"}

Generate(r) == req[r].kind = "generate" /\ req[r].pc # "idle"

Thm_C5 ==
    /\ usage = usage0 + Cardinality(Incremented)
    /\ records = Cardinality(Inserted)
    /\ \A r \in Requests :
           (Generate(r) /\ req[r].code \in GateCodes) =>
               /\ req[r].status \in {401, 402, 429}
               /\ ~req[r].incremented
               /\ ~req[r].inserted
               /\ ~req[r].invoked
               /\ ~req[r].logged
               /\ req[r].sent = 1

W_C5 ==
    \E r1, r2 \in Requests :
        /\ Generate(r1) /\ req[r1].code = "USAGE_LIMIT_EXCEEDED"
        /\ req[r2].incremented /\ req[r2].logged

\* authenticateToken has finished for request r (a response sent or next
\* called), and the responses it sends itself.
AuthDone(r) ==
    /\ Has(req[r], "authenticate")
    /\ req[r].pc \notin {"blacklist", "user", "sub"}

AuthCodes ==
    {"TOKEN_REQUIRED", "INVALID_TOKEN", "TOKEN_EXPIRED", "TOKEN_INVALIDATED",
     "USER_NOT_FOUND", "TRIAL_EXPIRED", "AUTH_FAILED"}

\* C6: authenticateToken calls next only for a present, verifying, not
\* blacklisted token of an existing active user; a missing, invalid, expired
\* or blacklisted credential gets a 401 and never next; every run ends with
\* exactly one outcome, a single response or a single next call.
CE_C6 ==
    \A r \in Requests :
        AuthDone(r) =>
            /\ req[r].nexts > 0 =>
                   /\ req[r].token \in ValidTokens
                   /\ ~req[r].expAtArrival
                   /\ ~req[r].blAtCheck
                   /\ userActive
            /\ (\/ req[r].token \notin ValidTokens
                \/ req[r].expAtArrival
                \/ req[r].blAtCheck) =>
                   req[r].status = 401 /\ req[r].nexts = 0
            /\ \/ req[r].nexts = 1 /\ req[r].code \notin AuthCodes
               \/ req[r].nexts = 0 /\ req[r].code \in AuthCodes
                                   /\ req[r].sent = 1

\* C7: once blacklistToken has been run for an access token, every later
\* authenticateToken call that presents it ends with 401 and without next.
CE_C7 ==
    \A r \in Requests :
        (req[r].afterRevoke /\ AuthDone(r)) =>
            req[r].status = 401 /\ req[r].nexts = 0

\* The trial window had elapsed / was running when request r's trial check
\* ran.
Elapsed(r) == req[r].trialAtCheck = "elapsed"
InTrial(r) == req[r].trialAtCheck = "running"

CE_C9 ==
    \A r \in Requests :
        (Generate(r) /\ Has(req[r], "trial") /\ InTrial(r)) =>
            req[r].code \notin {"TRIAL_EXPIRED", "USAGE_LIMIT_EXCEEDED"}

\* C9 amended: inside the trial window the subscription gate is bypassed
\* whatever the subscription state (no lookup, never 402), but the quota
\* gate still applies: the request is rejected with 429 exactly when its
\* monthly_usage >= usage_limit.
Thm_C9 ==
    \A r \in Requests :
        (Generate(r) /\ Has(req[r], "trial") /\ InTrial(r)) =>
            /\ req[r].lookups = 0
            /\ req[r].code # "TRIAL_EXPIRED"
            /\ req[r].nexts = 1
            /\ (req[r].row >= UsageLimit) <=>
                   (req[r].status = 429 /\ req[r].code = "USAGE_LIMIT_EXCEEDED")
            /\ (req[r].row < UsageLimit) <=> req[r].quota = "next"

W_C9 ==
    \E r \in Requests :
        /\ Generate(r) /\ InTrial(r) /\ ~subActive
        /\ req[r].row >= UsageLimit
        /\ req[r].code = "USAGE_LIMIT_EXCEEDED"

\* The UPDATE of incrementUsage failed for request r: the row was inserted,
\* the request is over and no increment was applied.
IncrementFailed(r) ==
    req[r].inserted /\ req[r].pc = "done" /\ ~req[r].incremented

\* C10: when the UPDATE of incrementUsage fails after generation and insert
\* succeeded, the request still ends with 201 (one response, the business
\* log entry written) and req.user.monthly_usage keeps the fetched value;
\* the stored usage counts only the increments that were applied.
Thm_C10 ==
    /\ usage = usage0 + Cardinality(Incremented)
    /\ \A r \in Requests :
           /\ IncrementFailed(r) =>
                  /\ req[r].status = 201
                  /\ req[r].code = "CREATED"
                  /\ req[r].sent = 1
                  /\ req[r].logged
                  /\ req[r].user = req[r].row
           /\ req[r].incremented => req[r].user = req[r].row + 1

W_C10 ==
    \E r \in Requests :
        IncrementFailed(r) /\ req[r].status = 201 /\ usage = usage0

\* ------------------------------------------- properties of openaiService.js
\* analyzeSentiment has finished for a string review text.
Classified ==
    /\ gen.sentimentOutput.kind # "none"
    /\ gen.reviewText.isString

Calls == {i \in DOMAIN gen.log : gen.log[i] \in {"sentiment_call", "generation_call"}}

HeuristicResult ==
    /\ gen.sentiment.score = "0.5"
    /\ gen.sentiment.confidence = "low"
    /\ gen.sentiment.key_emotions = <<>>
    /\ gen.sentiment.main_concerns = <<>>

\* C11: analyzeSentiment never throws for a string review text, and every
\* failure of the primary path (the call rejects, the reply does not parse,
\* the reply parses to something that is not an analysis with a sentiment)
\* ends in the heuristic fallback result.
CE_C11 ==
    (Classified /\ gen.entry = "analyzeSentiment") =>
        /\ gen.pc = "returned"
        /\ (\/ gen.sentimentOutput.kind
                   \in {"error", "unparsable", "null", "scalar"}
            \/ gen.sentimentOutput.label = "undefined")
               => (HeuristicResult /\ gen.sentiment.sentiment \in SentimentLabels)

\* C12: every value analyzeSentiment returns has a sentiment in
\* {positive, negative, neutral}.
CE_C12 ==
    (Classified /\ gen.entry = "analyzeSentiment" /\ gen.pc = "returned")
        => gen.sentiment.sentiment \in {"positive", "negative", "neutral"}

\* C13: when the primary path of analyzeSentiment throws (the call rejects,
\* the reply does not parse, or it parses to null) for a string review
\* text, the result has a sentiment in {positive, negative, neutral}, score
\* 0.5, confidence low, no key emotions and no main concerns, and no call
\* other than the failed one was made.
Thm_C13 ==
    (/\ Classified
     /\ gen.entry = "analyzeSentiment"
     /\ gen.sentimentOutput.kind \in {"error", "unparsable", "null"})
        => /\ gen.pc = "returned"
           /\ gen.sentiment.sentiment \in {"positive", "negative", "neutral"}
           /\ gen.sentiment.score = "0.5"
           /\ gen.sentiment.confidence = "low"
           /\ gen.sentiment.key_emotions = <<>>
           /\ gen.sentiment.main_concerns = <<>>
           /\ Cardinality(Calls) = 1

W_C13 ==
    /\ gen.entry = "analyzeSentiment"
    /\ gen.pc = "returned"
    /\ gen.sentimentOutput.kind = "unparsable"
    /\ gen.reviewText.words = <<"bad", "HATEFUL">>
    /\ gen.sentiment.sentiment = "negative"
    /\ gen.sentiment.confidence = "low"

\* The label for a positive and a negative count.
Verdict(p, n) ==
    IF p > n THEN "positive" ELSE IF n > p THEN "negative" ELSE "neutral"

\* The places of a text where a word of the list occurs, and the words of
\* the list that occur somewhere in the text, after lower-casing.
Occurrences(words, list) ==
    {i \in DOMAIN words : Substrings(ToLowerCase(words[i])) \cap list # {}}

Found(words, list) ==
    {w \in list : \E i \in DOMAIN words : w \in Substrings(ToLowerCase(words[i]))}

FellBack == Classified /\ gen.fallback

\* C14 as stated: the fallback label compares the number of occurrences of
\* positive words with the number of occurrences of negative words in the
\* lower-cased text.
CE_C14 ==
    FellBack =>
        gen.sentiment.sentiment =
            Verdict(Cardinality(Occurrences(gen.reviewText.words, positiveWords)),
                    Cardinality(Occurrences(gen.reviewText.words, negativeWords)))

\* C14: the fallback label compares the number of listed positive words
\* that occur in the lower-cased text (as substrings, each counted once
\* however often it occurs) with the number of listed negative words that
\* occur in it: positive if the first is greater, negative if the second
\* is greater, neutral if they are equal. The label depends on the text
\* only.
Thm_C14 ==
    FellBack =>
        gen.sentiment.sentiment =
            Verdict(Cardinality(Found(gen.reviewText.words, positiveWords)),
                    Cardinality(Found(gen.reviewText.words, negativeWords)))

W_C14 ==
    /\ FellBack
    /\ gen.reviewText.words = <<"Good", "Good", "bad">>
    /\ gen.sentiment.sentiment = "neutral"

\* generateResponses was called and its generation call has settled.
Generated ==
    /\ gen.entry = "generateResponses"
    /\ gen.generationOutput.kind # "none"

Returned == gen.entry = "generateResponses" /\ gen.pc = "returned"

\* C15: every successful return of generateResponses carries exactly 3
\* candidates, and a reply that is not a list of exactly 3 items makes the
\* call fail.
CE_C15 ==
    /\ Returned => Len(gen.responses) = 3
    /\ (Generated /\ (\/ gen.generationOutput.kind # "list"
                      \/ Len(gen.generationOutput.items) # 3))
           => gen.pc = "thrown"

\* C16: when an item of the model's list has no response text,
\* generateResponses throws and returns no list, not even the items before
\* the faulty one.
Thm_C16 ==
    (/\ Generated
     /\ \E i \in DOMAIN gen.generationOutput.items :
            "response" \notin gen.generationOutput.items[i].fields)
        => /\ gen.pc = "thrown"
           /\ gen.responses = <<>>
           /\ gen.error # ""

W_C16 ==
    /\ Generated
    /\ Len(gen.generationOutput.items) = 3
    /\ "response" \in gen.generationOutput.items[1].fields
    /\ "response" \in gen.generationOutput.items[2].fields
    /\ "response" \notin gen.generationOutput.items[3].fields
    /\ gen.pc = "thrown"

\* C17: the returned candidates are the model's items in the model's order;
\* the candidate at the n-th place has id n (counting from 1), the tone of
\* the call and the label analyzeSentiment returned as sentiment_addressed,
\* whatever the item itself says for id, tone and sentiment_addressed.
Thm_C17 ==
    Returned =>
        /\ Len(gen.responses) = Len(gen.generationOutput.items)
        /\ \A i \in DOMAIN gen.responses :
               /\ gen.responses[i].spaces = gen.generationOutput.items[i].spaces
               /\ gen.responses[i].id = i
               /\ gen.responses[i].tone = gen.tone
               /\ gen.responses[i].sentiment_addressed
                      = gen.sentiment.sentiment

W_C17 ==
    /\ Returned
    /\ Len(gen.responses) = 3
    /\ gen.generationOutput.items[1].spaces = 200
    /\ gen.generationOutput.items[2].fields
           = {"response", "id", "tone", "sentiment_addressed"}
    /\ gen.generationOutput.items[2].id = 7
    /\ gen.generationOutput.items[3].spaces = 0
    /\ gen.tone = "friendly"
    /\ gen.sentiment.sentiment = "negative"

\* C18 as stated: the estimated reading time of a short response (fewer
\* pieces than 200) is 0.
CE_C18 ==
    Returned =>
        \A i \in DOMAIN gen.responses :
            gen.responses[i].spaces + 1 < 200
                => gen.responses[i].estimated_reading_time = 0

\* C18: the estimated reading time is the number of space-separated pieces
\* of the response text divided by 200 and rounded up; a text has at least
\* one piece, so the value is at least 1 (1 for up to 200 pieces).
Thm_C18 ==
    Returned =>
        \A i \in DOMAIN gen.responses :
            LET pieces == gen.responses[i].spaces + 1
                t == gen.responses[i].estimated_reading_time
            IN /\ (t - 1) * 200 < pieces
               /\ pieces <= t * 200
               /\ t >= 1

W_C18 ==
    /\ Returned
    /\ \E i \in DOMAIN gen.responses :
           /\ gen.responses[i].spaces = 0
           /\ gen.responses[i].estimated_reading_time = 1
    /\ \E i \in DOMAIN gen.responses :
           /\ gen.responses[i].spaces = 199
           /\ gen.responses[i].estimated_reading_time = 1
    /\ \E i \in DOMAIN gen.responses :
           /\ gen.responses[i].spaces = 200
           /\ gen.responses[i].estimated_reading_time = 2

\* The prompt of generateResponses has been composed.
Composed ==
    /\ gen.entry = "generateResponses"
    /\ \E i \in DOMAIN gen.log : gen.log[i] = "prompt_composed"

\* C19: each supported business type and tone resolves to its own
\* non-empty fragment, and every other value resolves to the default (the
\* professional-services context, the professional tone).
CE_C19 ==
    Composed =>
        /\ gen.prompt.specialties # ""
        /\ gen.prompt.toneInstruction # ""
        /\ gen.prompt.specialties =
               IF gen.businessType \in DOMAIN businessContexts
               THEN businessContexts[gen.businessType]
               ELSE businessContexts["professional services"]
        /\ gen.prompt.toneInstruction =
               IF gen.tone \in DOMAIN toneInstructions
               THEN toneInstructions[gen.tone]
               ELSE toneInstructions["professional"]
        /\ \A b \in DOMAIN businessContexts :
               gen.prompt.specialties = businessContexts[b]
                   => (b = gen.businessType
                       \/ gen.businessType \notin DOMAIN businessContexts)
        /\ \A o \in DOMAIN toneInstructions :
               gen.prompt.toneInstruction = toneInstructions[o]
                   => (o = gen.tone \/ gen.tone \notin DOMAIN toneInstructions)

\* C20: in generateResponses the sentiment classification completes before
\* the prompt is composed and the prompt is composed before the generation
\* call is issued; when the classification throws or no strategy exists for
\* its label, the generation call is never issued.
StepOrder ==
    <<"sentiment_call", "sentiment_done", "prompt_composed",
      "generation_call", "generation_done">>

Thm_C20 ==
    gen.entry = "generateResponses" =>
        /\ \/ gen.log = <<"sentiment_call", "sentiment_threw">>
           \/ /\ Len(gen.log) <= Len(StepOrder)
              /\ \A i \in DOMAIN gen.log : gen.log[i] = StepOrder[i]
        /\ (\E i \in DOMAIN gen.log : gen.log[i] = "generation_call")
               => /\ gen.sentimentOutput.kind # "none"
                  /\ gen.sentiment.sentiment
                         \in {"positive", "negative", "neutral"}
        /\ (/\ gen.sentimentOutput.kind # "none"
            /\ gen.sentiment.sentiment
                   \notin {"positive", "negative", "neutral"})
               => /\ gen.pc = "thrown"
                  /\ gen.generationOutput.kind = "none"

W_C20 ==
    /\ gen.entry = "generateResponses"
    /\ gen.pc = "generating"
    /\ gen.fallback
    /\ gen.log = <<"sentiment_call", "sentiment_done", "prompt_composed",
                   "generation_call">>

\* C21: whichever step of generateResponses fails (the classification
\* throws, no strategy exists for the label, the generation call rejects,
\* its reply does not parse or is no list, an item has no response), the
\* caller gets an error with the one fixed message and nothing of the
\* provider's error.
Thm_C21 ==
    (gen.entry = "generateResponses" /\ gen.pc = "thrown")
        => gen.error = "Failed to generate review responses. Please try again."

W_C21 ==
    /\ gen.entry = "generateResponses"
    /\ gen.pc = "thrown"
    /\ gen.generationOutput.kind = "error"
    /\ gen.error # ""

\* generateSingleResponse was called and has settled.
SingleSettled ==
    /\ gen.entry = "generateSingleResponse"
    /\ gen.pc \in {"returned", "thrown"}

\* The generateResponses call made for gen has failed: the classification
\* threw, no strategy exists for its label, or the generation call settled
\* with a rejection, with a reply that is no list, with an item without
\* response, or for a review text that is no string.
PipelineFailed ==
    \/ gen.log[Len(gen.log)] = "sentiment_threw"
    \/ /\ gen.sentimentOutput.kind # "none"
       /\ gen.sentiment.sentiment \notin {"positive", "negative", "neutral"}
    \/ /\ gen.generationOutput.kind # "none"
       /\ \/ gen.generationOutput.kind # "list"
          \/ ~gen.reviewText.isString
          \/ \E i \in DOMAIN gen.generationOutput.items :
                 "response" \notin gen.generationOutput.items[i].fields

\* C23: generateSingleResponse runs one generateResponses call (one
\* sentiment call, at most one generation call, in the order of that
\* function) and makes no call of its own; when it returns, its response is
\* the text of the first candidate of that call and its sentiment is the
\* sentiment of that call; when that call fails, it fails with the same
\* error.
Thm_C23 ==
    gen.entry = "generateSingleResponse" =>
        /\ \/ gen.log = <<"sentiment_call", "sentiment_threw">>
           \/ /\ Len(gen.log) <= Len(StepOrder)
              /\ \A i \in DOMAIN gen.log : gen.log[i] = StepOrder[i]
        /\ gen.pc = "returned" =>
               /\ gen.generationOutput.kind = "list"
               /\ gen.single.response = gen.generationOutput.items[1].spaces
               /\ gen.single.sentiment = gen.sentiment
        /\ (SingleSettled /\ PipelineFailed) =>
               /\ gen.pc = "thrown"
               /\ gen.error
                      = "Failed to generate review responses. Please try again."

W_C23 ==
    /\ gen.entry = "generateSingleResponse"
    /\ gen.pc = "returned"
    /\ Len(gen.generationOutput.items) = 3
    /\ gen.generationOutput.items[1].spaces = 200
    /\ gen.generationOutput.items[3].spaces = 0
    /\ gen.single.response = 200
    /\ gen.single.sentiment.sentiment = "positive"

\* C22: a request to POST /api/responses whose generateResponses call
\* threw is answered once, with a status from 500 to 599, never with 400,
\* 401, 402 or 429; nothing is stored or counted for it.
Thm_C22 ==
    \A r \in Requests :
        req[r].failed = "generation" =>
            /\ req[r].pc = "done"
            /\ req[r].sent = 1
            /\ req[r].status >= 500
            /\ req[r].status <= 599
            /\ req[r].status \notin {400, 401, 402, 429}
            /\ ~req[r].inserted
            /\ ~req[r].incremented

W_C22 ==
    \E r \in Requests :
        /\ req[r].failed = "generation"
        /\ req[r].invoked
        /\ req[r].status = 500

\* ------------------------------------------- errorHandler on its own
\* errorHandler.js lines 172-216: the middleware answers the error it was
\* given; NODE_ENV and req.id are read while the body is prepared.
ErrorHandlerRuns ==
    /\ ~handled.done
    /\ handled' = [handled EXCEPT
           !.done = TRUE,
           !.response = ErrorResponse(handled.error, handled.env, handled.hasId)]
    /\ UNCHANGED <<lifecycle, session, reg, users, gen, batch, limit>>

\* Every error, every NODE_ENV and both cases of req.id.
InitError ==
    /\ LifecycleIdle
    /\ users = NoUsers
    /\ gen = IdleGen
    /\ batch = IdleBatch
    /\ limit = IdleLimit
    /\ handled \in {[IdleHandled EXCEPT !.error = e, !.env = v, !.hasId = h] :
                        e \in Errors, v \in Environments, h \in BOOLEAN}

NextError == ErrorHandlerRuns

SpecError == InitError /\ [][NextError]_vars

\* C28 as stated: no body sent by errorHandler has a stack field.  Violated
\* when NODE_ENV is 'development'.
CE_C28 == handled.done => "stack" \notin handled.response.fields

\* C28, amended: the body sent by errorHandler has a stack field (and a
\* details field) exactly when NODE_ENV is 'development'; in every other
\* configuration its fields are error, timestamp, path, method and, when
\* req.id is set, requestId.
Thm_C28 ==
    handled.done =>
        /\ "stack" \in handled.response.fields <=> handled.env = "development"
        /\ "details" \in handled.response.fields <=> handled.env = "development"
        /\ handled.env # "development" =>
               handled.response.fields \subseteq
                   {"error", "timestamp", "path", "method", "requestId"}
        /\ "requestId" \in handled.response.fields <=> handled.hasId

W_C28 ==
    /\ handled.done
    /\ handled.env = "production"
    /\ handled.error.code = "23505"
    /\ handled.response.status = 409
    /\ "stack" \notin handled.response.fields

\* ------------------------------------ config/redis.js, incrementRateLimit
\* Bounds. MaxCalls: calls of incrementRateLimit for the key; MaxLimit:
\* largest maxRequests argument.
MaxCalls == 4
MaxLimit == 2

\* How the MULTI/EXEC of one call ends: it is applied and answered, it is
\* rejected before redis applied it, or it is applied and its reply is lost.
Outcomes == {"ok", "refused", "lost"}

\* part_001 lines 246-252: the value returned for the count read from the
\* reply of INCR.
RateLimitResult(count, maxRequests) ==
    [count |-> count,
     remaining |-> IF maxRequests - count > 0 THEN maxRequests - count ELSE 0,
     exceeded |-> count > maxRequests]

\* part_001 lines 253-256: the value returned when the call threw.
RateLimitDefault(maxRequests) ==
    [count |-> 0, remaining |-> maxRequests, exceeded |-> FALSE]

\* part_001 lines 235-257, incrementRateLimit(key, windowSeconds,
\* maxRequests) for the one key: INCR and EXPIRE in one transaction, the
\* result computed from the incremented count, or the permissive default
\* of the catch block.  Each call is recorded with the counter it found.
IncrementRateLimit(outcome) ==
    /\ Len(limit.calls) < MaxCalls
    /\ LET applied == outcome \in {"ok", "lost"}
           stored == IF applied THEN limit.count + 1 ELSE limit.count
           result == IF outcome = "ok"
                     THEN RateLimitResult(stored, limit.maxRequests)
                     ELSE RateLimitDefault(limit.maxRequests)
       IN limit' = [limit EXCEPT
              !.count = stored,
              !.calls = Append(@, [before |-> limit.count,
                                   outcome |-> outcome,
                                   result |-> result])]
    /\ UNCHANGED <<lifecycle, session, reg, users, gen, batch, handled>>

\* part_001 line 243: the key expires windowSeconds after the last EXPIRE;
\* the next INCR starts from no key.  The calls of the window that ended
\* are forgotten.
WindowExpires ==
    /\ limit.count > 0
    /\ Len(limit.calls) < MaxCalls
    /\ limit' = [limit EXCEPT !.count = 0, !.calls = <<>>]
    /\ UNCHANGED <<lifecycle, session, reg, users, gen, batch, handled>>

InitRate ==
    /\ LifecycleIdle
    /\ users = NoUsers
    /\ gen = IdleGen
    /\ batch = IdleBatch
    /\ handled = IdleHandled
    /\ limit \in {[IdleLimit EXCEPT !.maxRequests = m] : m \in 1..MaxLimit}

NextRate ==
    \/ \E outcome \in Outcomes : IncrementRateLimit(outcome)
    \/ WindowExpires

SpecRate == InitRate /\ [][NextRate]_vars

\* C27: within one window of the key the calls that find fewer than
\* maxRequests counted requests are reported as not exceeded and every
\* further call is reported as exceeded, with remaining =
\* max(0, maxRequests - count) and never negative.
CE_C27 ==
    \A k \in 1..Len(limit.calls) :
        LET call == limit.calls[k]
        IN /\ call.result.exceeded <=> call.before >= limit.maxRequests
           /\ call.result.remaining >= 0

\* --------------------------- openaiService.js, batchGenerateResponses
\* Bound. MaxBatch: reviews of one batch.
MaxBatch == 3

\* The reviews a batch is made of: two with a text and one whose text is
\* missing, for which generateSingleResponse always throws.  An id may
\* occur more than once in a batch.
Reviews ==
    {[id |-> "r7", text |-> [isString |-> TRUE, words |-> <<>>]],
     [id |-> "r3", text |-> [isString |-> TRUE, words |-> <<>>]],
     [id |-> "r9", text |-> [isString |-> FALSE, words |-> <<>>]]}

\* What the two model calls of one item can produce.
BatchSentimentOutputs ==
    {out \in SentimentOutputs :
         \/ out.kind = "error"
         \/ out.kind = "object" /\ out.label = "negative"}

BatchGenerationOutputs ==
    {out \in GenerationOutputs :
         \/ out.kind = "error"
         \/ out.kind = "list" /\ out.items \in {<<>>, <<PlainItem(0)>>}}

\* Lines 294-299: generateSingleResponse(review.text, businessType, tone)
\* run to its end, the sentiment call settling with sOut and the
\* generation call, when it is reached, with gOut.
RunSingle(review, sOut, gOut) ==
    LET g0 == Called("generateSingleResponse", review.text,
                     "restaurant", "professional")
        g1 == SentimentStep(g0, sOut)
    IN IF g1.pc = "generating" THEN GenerationStep(g1, gOut) ELSE g1

\* Lines 301-307: the result is pushed and the delay of 1000 ms starts.
ItemSucceeded(b, single) ==
    [b EXCEPT !.pc = "delay",
              !.results = Append(@, [reviewId |-> b.reviews[b.i].id,
                                     response |-> single.response,
                                     sentiment |-> single.sentiment]),
              !.log = Append(@, [step |-> "end", item |-> b.i, ok |-> TRUE])]

\* Faulty variant: the error of an item leaves the loop.
ItemFailed_Abort(b, message) ==
    [b EXCEPT !.pc = "thrown",
              !.log = Append(@, [step |-> "end", item |-> b.i, ok |-> FALSE])]

\* Lines 308-313: the catch block pushes the error and the loop goes on
\* with the next review at once.
ItemFailed(b, message) ==
    [b EXCEPT !.pc = "loop", !.i = @ + 1,
              !.errors = Append(@, [reviewId |-> b.reviews[b.i].id,
                                    error |-> message]),
              !.log = Append(@, [step |-> "end", item |-> b.i, ok |-> FALSE])]

\* Faulty variant: the review after the next one is taken.
NextReview_Skip(b) ==
    [b EXCEPT !.pc = "loop", !.i = @ + 2, !.delays = @ + 1]

\* Line 307 resolved: the delay is over and the loop goes on.
NextReview(b) ==
    [b EXCEPT !.pc = "loop", !.i = @ + 1, !.delays = @ + 1]

\* Lines 292-299: the loop takes the next review and calls
\* generateSingleResponse for it.
BatchItemStarts ==
    /\ batch.pc = "loop"
    /\ batch.i <= Len(batch.reviews)
    /\ batch' = [batch EXCEPT
           !.pc = "awaiting",
           !.log = Append(@, [step |-> "start", item |-> batch.i,
                              ok |-> FALSE])]
    /\ UNCHANGED <<lifecycle, session, reg, users, gen, limit, handled>>

\* Lines 294-313: the call for the review in hand settles.
BatchItemSettles(sOut, gOut) ==
    /\ batch.pc = "awaiting"
    /\ LET g == RunSingle(batch.reviews[batch.i], sOut, gOut)
       IN batch' = IF g.pc = "thrown"
                   THEN ItemFailed(batch, g.error)
                   ELSE ItemSucceeded(batch, g.single)
    /\ UNCHANGED <<lifecycle, session, reg, users, gen, limit, handled>>

\* Line 307: the timer of the delay fires.
BatchDelayEnds ==
    /\ batch.pc = "delay"
    /\ batch' = NextReview(batch)
    /\ UNCHANGED <<lifecycle, session, reg, users, gen, limit, handled>>

\* Line 316: no review is left.
BatchReturns ==
    /\ batch.pc = "loop"
    /\ batch.i > Len(batch.reviews)
    /\ batch' = [batch EXCEPT !.pc = "returned"]
    /\ UNCHANGED <<lifecycle, session, reg, users, gen, limit, handled>>

InitBatch ==
    /\ LifecycleIdle
    /\ users = NoUsers
    /\ gen = IdleGen
    /\ limit = IdleLimit
    /\ handled = IdleHandled
    /\ batch \in {[IdleBatch EXCEPT !.pc = "loop", !.i = 1, !.reviews = s] :
                      s \in UNION {[1..n -> Reviews] : n \in 0..MaxBatch}}

NextBatch ==
    \/ BatchItemStarts
    \/ \E sOut \in BatchSentimentOutputs, gOut \in BatchGenerationOutputs :
           BatchItemSettles(sOut, gOut)
    \/ BatchDelayEnds
    \/ BatchReturns

SpecBatch == InitBatch /\ [][NextBatch]_vars

\* The calls started and the calls settled so far, in order.
Started == SelectSeq(batch.log, LAMBDA e : e.step = "start")

Ended == SelectSeq(batch.log, LAMBDA e : e.step = "end")

\* C24: the reviews are processed one at a time in input order: the j-th
\* call started is the call for review j, it starts only when the call
\* for review j-1 has settled, and at most one call is pending.
Thm_C24 ==
    /\ \A j \in 1..Len(Started) : Started[j].item = j
    /\ \A j \in 1..Len(Ended) : Ended[j].item = j
    /\ Len(Started) - Len(Ended) \in {0, 1}
    /\ Len(Started) - Len(Ended) = 1 <=> batch.pc = "awaiting"
    /\ \A k \in 1..Len(batch.log) :
           batch.log[k].step = "start" /\ batch.log[k].item > 1 =>
               \E m \in 1..(k - 1) :
                   /\ batch.log[m].step = "end"
                   /\ batch.log[m].item = batch.log[k].item - 1
    /\ batch.pc = "returned" => Len(Started) = Len(batch.reviews)

W_C24 ==
    /\ batch.pc = "awaiting"
    /\ batch.i = 3
    /\ Len(Ended) = 2
    /\ Ended[1].ok
    /\ ~Ended[2].ok

\* C25: a batch of N reviews that has returned has slept N delays.
\* Violated: the delay is inside the try block, after the push, and is
\* skipped for a review whose call threw.
CE_C25 == batch.pc = "returned" => batch.delays = Len(batch.reviews)

\* The ids of the reviews whose call settled with ok, in input order.
IdsOf(ok) ==
    LET s == SelectSeq(Ended, LAMBDA e : e.ok = ok)
    IN [k \in 1..Len(s) |-> batch.reviews[s[k].item].id]

ReviewIds == {batch.reviews[k].id : k \in 1..Len(batch.reviews)}

\* C26: the batch never throws and never stops before the last review:
\* once it has returned, every review has one entry, in results when its
\* call returned and in errors when it threw, both lists in input order;
\* with distinct ids every id is in exactly one list; with exactly one
\* failing review there are N-1 results and one error with its id.
Thm_C26 ==
    /\ batch.pc \in {"loop", "awaiting", "delay", "returned"}
    /\ Len(batch.results) + Len(batch.errors) = Len(Ended)
    /\ [k \in 1..Len(batch.results) |-> batch.results[k].reviewId] = IdsOf(TRUE)
    /\ [k \in 1..Len(batch.errors) |-> batch.errors[k].reviewId] = IdsOf(FALSE)
    /\ batch.pc = "returned" =>
           /\ Len(Ended) = Len(batch.reviews)
           /\ Len(batch.results) + Len(batch.errors) = Len(batch.reviews)
           /\ Cardinality(ReviewIds) = Len(batch.reviews) =>
                  \A id \in ReviewIds :
                      (\E k \in 1..Len(batch.results) :
                           batch.results[k].reviewId = id)
                          <=> ~(\E k \in 1..Len(batch.errors) :
                                    batch.errors[k].reviewId = id)
           /\ \A j \in 1..Len(batch.reviews) :
                  (\A k \in 1..Len(batch.reviews) : Ended[k].ok <=> k # j) =>
                      /\ Len(batch.results) = Len(batch.reviews) - 1
                      /\ Len(batch.errors) = 1
                      /\ batch.errors[1].reviewId = batch.reviews[j].id

W_C26 ==
    /\ batch.pc = "returned"
    /\ Len(batch.reviews) = 3
    /\ Cardinality(ReviewIds) = 3
    /\ Len(batch.results) = 2
    /\ Len(batch.errors) = 1
    /\ batch.reviews[2].id = "r9"
    /\ batch.errors[1].reviewId = "r9"

\* -------------------------------------- routes/auth.js: the token routes
\* redis.get(key) (part_001 lines 79-90): the stored value, or null when the
\* key is absent or the cache errors.
RedisGet(stored, ok) == IF ok THEN stored ELSE NoToken

\* redis.set(key, value, ttl) for a token key (part_001 lines 92-104): any
\* error of the cache is caught and the key stays as it was.  The 30 days
\* of a refresh token and of its key lie beyond the last clock value.
RedisStore(stored, value, ok) == IF ok THEN value ELSE stored

\* The refresh tokens the caller holds: the one of the first login and
\* those of answered refresh and login requests.
Delivered ==
    {1} \cup {req[o].fresh : o \in {x \in Requests :
                                       /\ req[x].kind \in {"refresh", "login"}
                                       /\ req[x].pc = "done"
                                       /\ req[x].status = 200}}

\* generateTokens, part_002 lines 45-56: jwt.sign puts iat and exp, in
\* whole seconds, into the payload {userId}; a refresh token signed in the
\* second in which the last one was signed is that same string (same),
\* another one is new.
GenerateTokens(issued, same) == IF same THEN issued ELSE issued + 1

\* POST /api/auth/refresh, part_002 lines 257-271: the body and jwt.verify
\* with JWT_REFRESH_SECRET (an access or reset token does not verify); then
\* redis.get is awaited.
RefreshHead(q) ==
    LET q1 == Visit(q, "refresh") IN
    IF q.presented = NoToken THEN Respond(q1, 401, "Refresh token required")
    ELSE IF q.presented = BadToken
         THEN Respond(q1, 401, "Invalid refresh token")
    ELSE [q1 EXCEPT !.pc = "refreshGet"]

\* POST /api/auth/reset-password, part_002 lines 399-432: validation,
\* jwt.verify with JWT_SECRET and the purpose check; then redis.get is
\* awaited.  (The hour of a reset token is not counted by the clock.)
ResetHead(q) ==
    LET q1 == Visit(q, "reset") IN
    IF ~q.valid THEN Respond(q1, 400, "Validation failed")
    ELSE IF q.presented = BadToken
         THEN Respond(q1, 400, "Invalid or expired token")
    ELSE [q1 EXCEPT !.pc = "resetGet"]

AuthKinds == {"refresh", "reset"}

\* A request to /api/auth/refresh or /api/auth/reset-password arrives:
\* generalLimiter (server.js line 91), then the handler up to its first
\* awaited I/O.  The caller presents a token it holds, or another string.
ArriveAuth(r, k, p, v) ==
    /\ req[r].pc = "idle"
    /\ k = "refresh" => v /\ p \in {NoToken, BadToken} \cup Delivered
    /\ k = "reset" => p \in {BadToken} \cup session.answered
    /\ generalHits' = generalHits + 1
    /\ LET q0 == Visit([req[r] EXCEPT
                            !.kind = k, !.presented = p, !.valid = v,
                            !.seen = usage,
                            !.afterLogout = (k = "refresh"
                                             /\ p \in session.loggedOut),
                            !.afterReset = (k = "refresh" /\ p >= 1
                                            /\ p <= session.resetAt),
                            !.afterUse = (p \in IF k = "refresh"
                                                THEN session.used
                                                ELSE session.spent),
                            !.afterNewer = (p \in IF k = "refresh"
                                                  THEN session.stale
                                                  ELSE session.superseded)],
                       "generalLimiter")
       IN Set(r, IF LimitExceeded(generalHits + 1, GeneralMax)
                 THEN Respond(q0, 429, "RATE_LIMIT_GENERAL")
                 ELSE IF k = "refresh" THEN RefreshHead(q0)
                 ELSE ResetHead(q0))
    /\ UNCHANGED <<aside, session, now, usage, usage0, userActive, trialEnd,
                   subActive, blacklist, revoked, generateHits, records>>

\* refresh, lines 270-278: the stored token is compared with the one
\* presented.
RefreshGet(r, ok) ==
    /\ req[r].pc = "refreshGet"
    /\ Set(r, IF RedisGet(session.refreshStore, ok) # req[r].presented
              THEN Respond(req[r], 401, "Invalid refresh token")
              ELSE [req[r] EXCEPT !.pc = "refreshUser"])
    /\ UNCHANGED <<aside, session, now, usage, usage0, userActive, trialEnd,
                   subActive, blacklist, revoked, generalHits, generateHits,
                   records>>

\* refresh, lines 280-296: the users row, then generateTokens; redis.set is
\* awaited.
RefreshUser(r, ok, same) ==
    /\ req[r].pc = "refreshUser"
    /\ same => now = session.issuedAt
    /\ LET pass == ok /\ userActive
           refreshToken == GenerateTokens(session.issued, same)
       IN /\ session' = IF pass
                        THEN [session EXCEPT !.issued = refreshToken,
                                             !.issuedAt = now]
                        ELSE session
          /\ Set(r, IF ~ok
                    THEN HandlerError([req[r] EXCEPT !.failed = "query"],
                                      DatabaseFailure)
                    ELSE IF ~userActive
                    THEN Respond(req[r], 401, "User not found")
                    ELSE [req[r] EXCEPT !.pc = "refreshSet",
                                        !.fresh = refreshToken])
    /\ UNCHANGED <<aside, now, usage, usage0, userActive, trialEnd, subActive,
                   blacklist, revoked, generalHits, generateHits, records>>

\* refresh, lines 296-304: the new refresh token is stored and both new
\* tokens are sent.
RefreshSet(r, ok) ==
    /\ req[r].pc = "refreshSet"
    /\ session' = [session EXCEPT
           !.refreshStore = RedisStore(@, req[r].fresh, ok),
           !.used = @ \cup {req[r].presented}]
    /\ Set(r, Respond(req[r], 200, "Tokens refreshed successfully"))
    /\ UNCHANGED <<aside, now, usage, usage0, userActive, trialEnd, subActive,
                   blacklist, revoked, generalHits, generateHits, records>>

\* reset-password, lines 434-445: the stored reset token is compared with
\* the one presented; then bcrypt.hash and the UPDATE are awaited.
ResetGet(r, ok) ==
    /\ req[r].pc = "resetGet"
    /\ Set(r, IF RedisGet(session.resetStore, ok) # req[r].presented
              THEN Respond(req[r], 400, "Invalid or expired token")
              ELSE [req[r] EXCEPT !.pc = "resetUpdate"])
    /\ UNCHANGED <<aside, session, now, usage, usage0, userActive, trialEnd,
                   subActive, blacklist, revoked, generalHits, generateHits,
                   records>>

\* reset-password, lines 447-451: UPDATE users SET password_hash.
ResetUpdate(r, ok) ==
    /\ req[r].pc = "resetUpdate"
    /\ session' = IF ok THEN [session EXCEPT !.password = @ + 1] ELSE session
    /\ Set(r, IF ok THEN [req[r] EXCEPT !.pc = "resetDel"]
              ELSE HandlerError([req[r] EXCEPT !.failed = "update"],
                                DatabaseFailure))
    /\ UNCHANGED <<aside, now, usage, usage0, userActive, trialEnd, subActive,
                   blacklist, revoked, generalHits, generateHits, records>>

\* reset-password, lines 453-466: redis.del of the password_reset key and
\* of the refresh_token key, then 200.  Nothing is done about access
\* tokens.
ResetDel(r, okReset, okRefresh) ==
    /\ req[r].pc = "resetDel"
    /\ session' = [session EXCEPT
           !.resetStore = RedisDel(@, okReset),
           !.refreshStore = RedisDel(@, okRefresh),
           !.resetAt = session.issued,
           !.spent = @ \cup {req[r].presented}]
    /\ Set(r, Respond(req[r], 200, "Password reset successful"))
    /\ UNCHANGED <<aside, now, usage, usage0, userActive, trialEnd, subActive,
                   blacklist, revoked, generalHits, generateHits, records>>

AuthStep(r) ==
    \/ \E ok \in BOOLEAN : AuthBlacklist(r, ok)
    \/ \E ok \in BOOLEAN : AuthUser(r, ok)
    \/ \E ok \in BOOLEAN : AuthSubscription(r, ok)
    \/ \E ok \in BOOLEAN, okDel \in BOOLEAN : Logout(r, ok, okDel)
    \/ \E ok \in BOOLEAN : RefreshGet(r, ok)
    \/ \E ok \in BOOLEAN, same \in BOOLEAN : RefreshUser(r, ok, same)
    \/ \E ok \in BOOLEAN : RefreshSet(r, ok)
    \/ \E ok \in BOOLEAN : ResetGet(r, ok)
    \/ \E ok \in BOOLEAN : ResetUpdate(r, ok)
    \/ \E okReset \in BOOLEAN, okRefresh \in BOOLEAN :
           ResetDel(r, okReset, okRefresh)

\* The caller has logged in and may have asked for a password reset
\* (forgot-password stored reset token 1); its trial ends at time 0 and it
\* has an active subscription.
InitAuth ==
    /\ now = 0
    /\ usage = 0
    /\ usage0 = 0
    /\ userActive \in BOOLEAN
    /\ trialEnd = 0
    /\ subActive = TRUE
    /\ blacklist = [t \in ValidTokens \cup ResetTokens |-> 0]
    /\ revoked = {}
    /\ generalHits = 0
    /\ generateHits = 0
    /\ records = 0
    /\ req = [r \in Requests |-> IdleReq]
    /\ session \in {LoggedIn,
                    [LoggedIn EXCEPT !.resetStore = 1, !.resets = 1,
                                     !.answered = {1}]}
    /\ gen = IdleGen
    /\ batch = IdleBatch
    /\ limit = IdleLimit
    /\ handled = IdleHandled
    /\ reg = [r \in Registrations |-> IdleReg]
    /\ users = NoUsers

\* The routes of /api/auth: logout behind authenticateToken, refresh and
\* reset-password.
NextAuth ==
    \/ \E r \in Requests, t \in Tokens : Arrive(r, "logout", t, TRUE)
    \/ \E r \in Requests, t \in ResetTokens :
           session.resets >= 1 /\ Arrive(r, "logout", t, TRUE)
    \/ \E r \in Requests, k \in AuthKinds,
          p \in BadToken..(NumReq + 1), v \in BOOLEAN : ArriveAuth(r, k, p, v)
    \/ \E r \in Requests : AuthStep(r)
    \/ Tick
    \/ ResetGeneral

SpecAuth == InitAuth /\ [][NextAuth]_vars

\* C29: a request that arrives after a logout was answered is refused: with
\* the access token of that logout it is not admitted by authenticateToken,
\* and a refresh with the refresh token that was stored is never answered
\* with new tokens.
CE_C29 ==
    \A r \in Requests :
        /\ req[r].kind = "logout" /\ req[r].afterRevoke => req[r].nexts = 0
        /\ req[r].kind = "refresh" /\ req[r].afterLogout =>
               req[r].status # 200

\* C30: a request that arrives after a password reset was answered, with a
\* token issued before that reset, is refused: an access token is not
\* admitted by authenticateToken and a refresh token is not answered with
\* new tokens.
CE_C30 ==
    \A r \in Requests :
        req[r].afterReset =>
            /\ req[r].nexts = 0
            /\ req[r].kind = "refresh" => req[r].status # 200

\* C37: authenticateToken admits only access tokens: a request that
\* presents a password-reset token as its bearer token is never passed on
\* to the handler behind authenticateToken.
CE_C37 ==
    \A r \in Requests :
        req[r].token \in ResetTokens => req[r].nexts = 0

\* C32: in POST /api/responses the usage counter is incremented at most
\* once per request and only after the generation and the insert of that
\* request succeeded; a request whose validation, generation or insert
\* failed has incremented nothing and is not answered with 201.
Thm_C32 ==
    /\ usage - usage0 <= Cardinality({r \in Requests : req[r].inserted})
    /\ usage - usage0 = Cardinality({r \in Requests : req[r].incremented})
    /\ \A r \in Requests :
           /\ req[r].incremented =>
                  /\ req[r].valid
                  /\ req[r].invoked
                  /\ req[r].inserted
                  /\ req[r].failed = ""
           /\ req[r].status = 201 =>
                  req[r].valid /\ req[r].inserted /\ req[r].failed = ""
           /\ req[r].pc = "incrementing" =>
                  req[r].inserted /\ req[r].failed = ""
           /\ (\/ req[r].code = "VALIDATION_FAILED"
               \/ req[r].failed \in {"generation", "insert"}) =>
                  /\ ~req[r].incremented
                  /\ req[r].status # 201
                  /\ req[r].pc = "done"

W_C32 ==
    \E r1, r2 \in Requests :
        /\ req[r1].failed = "insert" /\ req[r1].status = 500
        /\ ~req[r1].incremented
        /\ req[r2].status = 201 /\ req[r2].incremented
        /\ usage = usage0 + 1

\* C33: the UPDATE of incrementUsage is atomic: whatever the interleaving
\* of the caller's requests, the stored monthly_usage is the start value
\* plus the number of requests whose UPDATE succeeded, and every such
\* request was answered 201 or is about to be.
Thm_C33 ==
    LET succeeded == {r \in Requests : req[r].incremented}
    IN /\ usage = usage0 + Cardinality(succeeded)
       /\ \A r \in succeeded : req[r].user = req[r].row + 1
       /\ \A r1, r2 \in succeeded :
              (r1 # r2 /\ req[r1].row = req[r2].row) =>
                  usage >= req[r1].row + 2

\* Two requests that both read the same snapshot, ran side by side and both
\* incremented.
W_C33 ==
    \E r1, r2 \in Requests :
        /\ r1 # r2
        /\ req[r1].incremented /\ req[r2].incremented
        /\ req[r1].row = usage0 /\ req[r2].row = usage0
        /\ usage = usage0 + 2

\* C34: the step of authenticateToken that awaits redis.exists either goes
\* on to the users query without a response, or answers 401 /
\* TOKEN_INVALIDATED and then the key really was present; it never answers
\* 500 and never rejects because the lookup failed.
BlacklistStep(r) ==
    req[r].pc = "blacklist" /\ req'[r] # req[r] =>
        \/ /\ req'[r].pc = "user"
           /\ req'[r].sent = 0
           /\ req'[r].status = 0
        \/ /\ req'[r].pc = "done"
           /\ req'[r].status = 401
           /\ req'[r].code = "TOKEN_INVALIDATED"
           /\ req'[r].nexts = 0
           /\ blacklist[req[r].token] > now

Thm_C34 == [][\A r \in Requests : BlacklistStep(r)]_vars

\* The key was present when the lookup ran, the lookup errored, and the
\* request went on and was admitted.
W_C34 ==
    \E r \in Requests :
        /\ req[r].blAtCheck
        /\ req[r].nexts = 1
        /\ req[r].code # "TOKEN_INVALIDATED"

\* ------------------- routes/auth.js register and database.transaction
SetReg(r, q) == reg' = [reg EXCEPT ![r] = q]

\* What the error middleware answers for a handler that threw error.
RegisterFails(q, error) ==
    LET convertedError == HandleError(error)
    IN [q EXCEPT !.pc = "done", !.status = convertedError.statusCode,
                 !.message = convertedError.message]

\* Faulty variant: the users table without the UNIQUE constraint on email.
InsertOutcome_NoConstraint(rows, ok) ==
    IF ~ok THEN "failed" ELSE "inserted"

\* part_003 line 10, email VARCHAR(255) UNIQUE NOT NULL: what the INSERT of
\* the callback gives when rows committed rows have the email and no other
\* transaction holds an uncommitted one.
InsertOutcome(rows, ok) ==
    IF ~ok THEN "failed"
    ELSE IF rows > 0 THEN "unique"
    ELSE "inserted"

\* Faulty variant: the client is released only when ROLLBACK succeeded.
TransactionThrows_NoFinally(q, ok) ==
    [q EXCEPT !.statements = Append(@, "ROLLBACK"),
              !.rollback = IF ok THEN "ok" ELSE "failed",
              !.holds = FALSE,
              !.released = IF ok THEN @ + 1 ELSE @,
              !.tx = "thrown",
              !.thrown = IF ok THEN q.pending
                         ELSE TxError("ROLLBACK", DatabaseFailure)]

\* part_000 lines 108-113: the catch block awaits ROLLBACK and throws the
\* caught error; when ROLLBACK rejects, its error leaves the catch block
\* instead; the finally block releases the client either way.  (The row
\* of a transaction that did not commit is gone in both cases.)
TransactionThrows(q, ok) ==
    [q EXCEPT !.statements = Append(@, "ROLLBACK"),
              !.rollback = IF ok THEN "ok" ELSE "failed",
              !.holds = FALSE,
              !.released = @ + 1,
              !.tx = "thrown",
              !.thrown = IF ok THEN q.pending
                         ELSE TxError("ROLLBACK", DatabaseFailure)]

\* register, lines 59-68: the validation result; then the existence check
\* is awaited.  (The request has passed generalLimiter.)
RegisterArrives(r, v) ==
    /\ reg[r].pc = "idle"
    /\ SetReg(r, IF v THEN [reg[r] EXCEPT !.pc = "select"]
                 ELSE [reg[r] EXCEPT !.pc = "done", !.valid = FALSE,
                                     !.status = 400,
                                     !.message = "Validation failed"])
    /\ UNCHANGED <<lifecycle, session, gen, batch, limit, handled, users>>

\* register, lines 72-83: SELECT id FROM users WHERE email = $1 sees the
\* committed rows; then bcrypt.hash and pool.connect() are awaited.
RegisterSelect(r, ok) ==
    /\ reg[r].pc = "select"
    /\ SetReg(r, IF ~ok THEN RegisterFails(reg[r], DatabaseFailure)
                 ELSE IF users.rows > 0
                 THEN [reg[r] EXCEPT !.pc = "done", !.saw = users.rows,
                                     !.status = 409,
                                     !.message = "User already exists"]
                 ELSE [reg[r] EXCEPT !.pc = "connect"])
    /\ UNCHANGED <<lifecycle, session, gen, batch, limit, handled, users>>

\* part_000 line 101: pool.connect(); a rejection leaves transaction
\* before its try block.
TransactionConnect(r, ok) ==
    /\ reg[r].pc = "connect"
    /\ SetReg(r, IF ok THEN [reg[r] EXCEPT !.pc = "begin"]
                 ELSE RegisterFails(reg[r], DatabaseFailure))
    /\ UNCHANGED <<lifecycle, session, gen, batch, limit, handled, users>>

\* part_000 line 104: BEGIN.
TransactionBegin(r, ok) ==
    /\ reg[r].pc = "begin"
    /\ LET q == [reg[r] EXCEPT !.statements = Append(@, "BEGIN")]
       IN SetReg(r, IF ok THEN [q EXCEPT !.pc = "callback"]
                    ELSE [q EXCEPT !.pc = "rollback",
                                   !.pending = TxError("BEGIN",
                                                       DatabaseFailure)])
    /\ UNCHANGED <<lifecycle, session, gen, batch, limit, handled, users>>

\* part_000 line 105 and register lines 94-111: the callback's INSERT.  It
\* waits while another transaction holds an uncommitted row with the email.
TransactionCallback(r, ok) ==
    /\ reg[r].pc = "callback"
    /\ \A o \in Registrations \ {r} : ~reg[o].holds
    /\ LET q == [reg[r] EXCEPT !.statements = Append(@, "INSERT")]
           outcome == InsertOutcome(users.rows, ok)
       IN SetReg(r, IF outcome = "inserted"
                    THEN [q EXCEPT !.pc = "commit", !.holds = TRUE,
                                   !.callback = "returned"]
                    ELSE [q EXCEPT !.pc = "rollback", !.callback = "threw",
                                   !.unique = (outcome = "unique"),
                                   !.pending =
                                       TxError("callback",
                                               IF outcome = "unique"
                                               THEN UniqueViolation
                                               ELSE DatabaseFailure)])
    /\ UNCHANGED <<lifecycle, session, gen, batch, limit, handled, users>>

\* part_000 lines 106-107 and 111-113: COMMIT is applied and answered
\* (transaction returns and the client is released), refused, or applied
\* with its reply lost.
TransactionCommit(r, outcome) ==
    /\ reg[r].pc = "commit"
    /\ LET q == [reg[r] EXCEPT !.statements = Append(@, "COMMIT")]
       IN SetReg(r, IF outcome = "ok"
                    THEN [q EXCEPT !.pc = "tokens", !.holds = FALSE,
                                   !.released = @ + 1, !.tx = "returned"]
                    ELSE [q EXCEPT !.pc = "rollback",
                                   !.holds = (outcome = "refused"),
                                   !.pending = TxError("COMMIT",
                                                       DatabaseFailure)])
    /\ users' = IF outcome \in {"ok", "lost"}
                THEN [users EXCEPT !.rows = @ + 1] ELSE users
    /\ UNCHANGED <<lifecycle, session, gen, batch, limit, handled>>

\* part_000 lines 108-113, then asyncHandler and errorHandler: the error
\* transaction throws is answered by the error middleware.
TransactionRollback(r, ok) ==
    /\ reg[r].pc = "rollback"
    /\ LET q == TransactionThrows(reg[r], ok)
       IN SetReg(r, RegisterFails(q, q.thrown.error))
    /\ UNCHANGED <<lifecycle, session, gen, batch, limit, handled, users>>

\* register, lines 113-151: generateTokens, redis.set of the refresh token
\* (its errors are swallowed) and the 201 with both tokens.
RegisterTokens(r) ==
    /\ reg[r].pc = "tokens"
    /\ SetReg(r, [reg[r] EXCEPT !.pc = "done", !.status = 201,
                                !.message = "Account created successfully",
                                !.tokens = TRUE])
    /\ UNCHANGED <<lifecycle, session, gen, batch, limit, handled, users>>

\* No account or one account has the email when the requests start.
InitRegister ==
    /\ LifecycleIdle
    /\ gen = IdleGen
    /\ batch = IdleBatch
    /\ limit = IdleLimit
    /\ handled = IdleHandled
    /\ \E n \in {0, 1} : users = [rows |-> n, rows0 |-> n]

NextRegister ==
    \E r \in Registrations :
        \/ \E v \in BOOLEAN : RegisterArrives(r, v)
        \/ \E ok \in BOOLEAN : RegisterSelect(r, ok)
        \/ \E ok \in BOOLEAN : TransactionConnect(r, ok)
        \/ \E ok \in BOOLEAN : TransactionBegin(r, ok)
        \/ \E ok \in BOOLEAN : TransactionCallback(r, ok)
        \/ \E outcome \in Outcomes : TransactionCommit(r, outcome)
        \/ \E ok \in BOOLEAN : TransactionRollback(r, ok)
        \/ RegisterTokens(r)

SpecRegister == InitRegister /\ [][NextRegister]_vars

Last(s) == s[Len(s)]

StatementsIn(s) == {s[i] : i \in 1..Len(s)}

\* A run of transaction that acquired a client and has ended.
TransactionEnded(q) == q.tx # ""

\* C39, as stated: a run of transaction that acquired a client ends with
\* COMMIT or ROLLBACK as its last statement, commits only after the callback
\* returned, throws the error of the callback (or of COMMIT) whenever it
\* throws, and has released the client exactly once.
CE_C39 ==
    \A r \in Registrations :
        TransactionEnded(reg[r]) =>
            /\ Last(reg[r].statements) \in {"COMMIT", "ROLLBACK"}
            /\ ("COMMIT" \in StatementsIn(reg[r].statements)
                    => reg[r].callback = "returned")
            /\ (reg[r].tx = "thrown"
                    => /\ reg[r].thrown = reg[r].pending
                       /\ reg[r].thrown.origin # "ROLLBACK")
            /\ reg[r].released = 1

\* C39, amended: a run of transaction that acquired a client ends with
\* COMMIT or ROLLBACK as its last statement, each attempted at most once;
\* COMMIT is attempted only after the callback returned and the run returns
\* only after COMMIT succeeded; the client is released exactly once when the
\* run has ended and not before; the error thrown is the one caught (of
\* BEGIN, the callback or COMMIT) when ROLLBACK succeeded and the error of
\* ROLLBACK when ROLLBACK failed.
Thm_C39 ==
    \A r \in Registrations :
        LET q == reg[r]
            count(x) == Cardinality({i \in 1..Len(q.statements) :
                                         q.statements[i] = x})
        IN /\ count("COMMIT") <= 1 /\ count("ROLLBACK") <= 1
           /\ ("COMMIT" \in StatementsIn(q.statements) => q.callback = "returned")
           /\ (~TransactionEnded(q) => q.released = 0)
           /\ (TransactionEnded(q) =>
                  /\ q.released = 1
                  /\ Last(q.statements) \in {"COMMIT", "ROLLBACK"}
                  /\ (q.tx = "returned" <=> Last(q.statements) = "COMMIT")
                  /\ (q.tx = "returned" => q.pending = NoError)
                  /\ (q.tx = "thrown" /\ q.rollback = "ok"
                         => /\ q.thrown = q.pending
                            /\ q.thrown.origin \in {"BEGIN", "callback",
                                                    "COMMIT"})
                  /\ (q.tx = "thrown" /\ q.rollback = "failed"
                         => q.thrown.origin = "ROLLBACK"))

\* The callback threw, ROLLBACK failed, and the client was released once.
W_C39 ==
    \E r \in Registrations :
        /\ reg[r].tx = "thrown"
        /\ reg[r].callback = "threw"
        /\ reg[r].rollback = "failed"
        /\ reg[r].released = 1
        /\ \E o \in Registrations : reg[o].tx = "returned"

\* C38, as stated: no second user with the email is ever created, and a
\* register request whose INSERT the UNIQUE constraint refused ends with a
\* 409 and no tokens.
CE_C38 ==
    /\ users.rows <= 1
    /\ \A r \in Registrations :
           reg[r].unique /\ reg[r].pc = "done"
               => reg[r].status = 409 /\ ~reg[r].tokens

\* C38, amended: at most one row with the email is ever committed, by at
\* most one register request when none existed; a request whose INSERT the
\* UNIQUE constraint refused gets no tokens and ends with a 409 when its
\* ROLLBACK succeeded and with a 500 when its ROLLBACK failed; tokens go only
\* to a request whose transaction returned.
Thm_C38 ==
    /\ users.rows <= 1
    /\ users.rows - users.rows0 \in {0, 1}
    /\ \A r \in Registrations :
           /\ reg[r].tokens => reg[r].tx = "returned" /\ reg[r].status = 201
           /\ reg[r].unique => ~reg[r].tokens /\ reg[r].tx # "returned"
           /\ reg[r].unique /\ reg[r].pc = "done"
                  => /\ reg[r].rollback = "ok" => reg[r].status = 409
                     /\ reg[r].rollback = "failed" => reg[r].status = 500
           /\ reg[r].pc = "tokens" => users.rows = 1

\* Both requests passed the existence check with no row; one was answered
\* 201 with tokens, the INSERT of the other was refused, answered 409.
W_C38 ==
    \E r, o \in Registrations :
        /\ r # o
        /\ reg[r].saw = 0 /\ reg[o].saw = 0
        /\ users.rows0 = 0
        /\ reg[r].status = 201 /\ reg[r].tokens
        /\ reg[o].unique /\ reg[o].status = 409 /\ ~reg[o].tokens
        /\ users.rows = 1

\* ------------------------ routes/auth.js: forgot-password and login
ResetRequested ==
    "If an account with this email exists, you will receive a password reset link."

\* Faulty variant: an address without an active account is answered 404.
ForgotNotFound_Reveals(q) == Respond(q, 404, "User not found")

\* forgot-password, part_002 lines 365-369: no active account has the
\* address.
ForgotNotFound(q) == Respond(q, 200, ResetRequested)

\* forgot-password lines 349-357 and login lines 155-162: the validation
\* result; then the users query is awaited.
AccountHead(q) ==
    LET q1 == Visit(q, q.kind) IN
    IF ~q.valid THEN Respond(q1, 400, "Validation failed")
    ELSE [q1 EXCEPT !.pc = IF q.kind = "forgot" THEN "forgotUser"
                           ELSE "loginUser"]

\* A request to /api/auth/forgot-password or /api/auth/login arrives:
\* generalLimiter (server.js line 91), then the handler up to its first
\* awaited I/O.
ArriveAccount(r, k, e, v) ==
    /\ req[r].pc = "idle"
    /\ generalHits' = generalHits + 1
    /\ LET q0 == Visit([req[r] EXCEPT
                            !.kind = k, !.email = e, !.valid = v,
                            !.seen = usage,
                            !.known = IF k = "forgot" THEN session.answered
                                      ELSE Delivered],
                       "generalLimiter")
       IN Set(r, IF LimitExceeded(generalHits + 1, GeneralMax)
                 THEN Respond(q0, 429, "RATE_LIMIT_GENERAL")
                 ELSE AccountHead(q0))
    /\ UNCHANGED <<aside, session, now, usage, usage0, userActive, trialEnd,
                   subActive, blacklist, revoked, generateHits, records>>

\* forgot-password, lines 359-378: the users query with is_active = true,
\* then jwt.sign of the reset token; redis.set is awaited.
ForgotUser(r, ok) ==
    /\ req[r].pc = "forgotUser"
    /\ LET found == req[r].email = "caller" /\ userActive
       IN /\ session' = IF ok /\ found
                        THEN [session EXCEPT !.resets = @ + 1]
                        ELSE session
          /\ Set(r, IF ~ok
                    THEN HandlerError([req[r] EXCEPT !.failed = "query"],
                                      DatabaseFailure)
                    ELSE IF ~found THEN ForgotNotFound(req[r])
                    ELSE [req[r] EXCEPT !.pc = "forgotSet",
                                        !.fresh = session.resets + 1])
    /\ UNCHANGED <<aside, now, usage, usage0, userActive, trialEnd, subActive,
                   blacklist, revoked, generalHits, generateHits, records>>

\* forgot-password, lines 380-395: the reset token is stored under
\* password_reset:<userId> and the same message is sent.
ForgotSet(r, ok) ==
    /\ req[r].pc = "forgotSet"
    /\ session' = [session EXCEPT
           !.resetStore = RedisStore(@, req[r].fresh, ok),
           !.answered = @ \cup {req[r].fresh},
           !.superseded = @ \cup req[r].known]
    /\ Set(r, Respond(req[r], 200, ResetRequested))
    /\ UNCHANGED <<aside, now, usage, usage0, userActive, trialEnd, subActive,
                   blacklist, revoked, generalHits, generateHits, records>>

\* login, lines 164-213: the users query by email, is_active,
\* bcrypt.compare, then generateTokens; redis.set is awaited.
LoginUser(r, ok, match, same) ==
    /\ req[r].pc = "loginUser"
    /\ same => now = session.issuedAt
    /\ LET pass == ok /\ req[r].email = "caller" /\ userActive /\ match
           refreshToken == GenerateTokens(session.issued, same)
       IN /\ session' = IF pass
                        THEN [session EXCEPT !.issued = refreshToken,
                                             !.issuedAt = now]
                        ELSE session
          /\ Set(r, IF ~ok
                    THEN HandlerError([req[r] EXCEPT !.failed = "query"],
                                      DatabaseFailure)
                    ELSE IF req[r].email # "caller"
                    THEN Respond(req[r], 401, "Invalid credentials")
                    ELSE IF ~userActive
                    THEN Respond(req[r], 403, "Account deactivated")
                    ELSE IF ~match
                    THEN Respond(req[r], 401, "Invalid credentials")
                    ELSE [req[r] EXCEPT !.pc = "loginSet",
                                        !.fresh = refreshToken])
    /\ UNCHANGED <<aside, now, usage, usage0, userActive, trialEnd, subActive,
                   blacklist, revoked, generalHits, generateHits, records>>

\* login, lines 215-253: the refresh token is stored under
\* refresh_token:<userId> and both tokens are sent.
LoginSet(r, ok) ==
    /\ req[r].pc = "loginSet"
    /\ session' = [session EXCEPT
           !.refreshStore = RedisStore(@, req[r].fresh, ok),
           !.stale = @ \cup (req[r].known \ {req[r].fresh})]
    /\ Set(r, Respond(req[r], 200, "Login successful"))
    /\ UNCHANGED <<aside, now, usage, usage0, userActive, trialEnd, subActive,
                   blacklist, revoked, generalHits, generateHits, records>>

\* The routes of /api/auth that need no access token: forgot-password,
\* reset-password, login and refresh.
NextAccount ==
    \/ \E r \in Requests, k \in {"forgot", "login"},
          e \in {"caller", "other"}, v \in BOOLEAN :
           ArriveAccount(r, k, e, v)
    \/ \E r \in Requests, k \in AuthKinds,
          p \in BadToken..(NumReq + 1), v \in BOOLEAN : ArriveAuth(r, k, p, v)
    \/ \E r \in Requests, ok \in BOOLEAN : ForgotUser(r, ok)
    \/ \E r \in Requests, ok \in BOOLEAN : ForgotSet(r, ok)
    \/ \E r \in Requests, ok \in BOOLEAN, match \in BOOLEAN, same \in BOOLEAN :
           LoginUser(r, ok, match, same)
    \/ \E r \in Requests, ok \in BOOLEAN : LoginSet(r, ok)
    \/ \E r \in Requests, ok \in BOOLEAN : RefreshGet(r, ok)
    \/ \E r \in Requests, ok \in BOOLEAN, same \in BOOLEAN :
           RefreshUser(r, ok, same)
    \/ \E r \in Requests, ok \in BOOLEAN : RefreshSet(r, ok)
    \/ \E r \in Requests, ok \in BOOLEAN : ResetGet(r, ok)
    \/ \E r \in Requests, ok \in BOOLEAN : ResetUpdate(r, ok)
    \/ \E r \in Requests, okReset \in BOOLEAN, okRefresh \in BOOLEAN :
           ResetDel(r, okReset, okRefresh)
    \/ Tick
    \/ ResetGeneral

SpecAccount == InitAuth /\ [][NextAccount]_vars

\* C31: forgot-password answers two valid requests, one naming an active
\* account and one not, with the same status and the same body whenever the
\* limiter and the users query treated them alike.
Thm_C31 ==
    \A r, o \in Requests :
        /\ req[r].kind = "forgot" /\ req[o].kind = "forgot"
        /\ req[r].pc = "done" /\ req[o].pc = "done"
        /\ req[r].valid /\ req[o].valid
        /\ req[r].failed = req[o].failed
        /\ (req[r].status = 429) = (req[o].status = 429)
        => /\ req[r].status = req[o].status
           /\ req[r].code = req[o].code

\* Two valid requests have been answered 200: one for the caller's active
\* account, for which a reset token was stored, and one for an address
\* without account.
W_C31 ==
    \E r, o \in Requests :
        /\ req[r].kind = "forgot" /\ req[o].kind = "forgot"
        /\ req[r].email = "caller" /\ req[r].fresh # NoToken
        /\ req[o].email = "other" /\ req[o].fresh = NoToken
        /\ req[r].status = 200 /\ req[o].status = 200
        /\ req[r].code = ResetRequested /\ req[o].code = ResetRequested

\* C35: a refresh request that arrives with a refresh token with which a
\* refresh has already been answered, or with one handed out before a login
\* that has since been answered, is not answered with new tokens.
CE_C35 ==
    \A r \in Requests :
        req[r].kind = "refresh" /\ (req[r].afterUse \/ req[r].afterNewer)
            => req[r].status # 200

\* C36: a reset-password request that arrives with a reset token with which
\* a reset has already been answered, or with one of a forgot-password
\* answered before a later one, does not change the password.
CE_C36 ==
    \A r \in Requests :
        req[r].kind = "reset" /\ (req[r].afterUse \/ req[r].afterNewer)
            => /\ req[r].pc \notin {"resetUpdate", "resetDel"}
               /\ req[r].status # 200

====
